-------------------------- MODULE MCFuturesIntent --------------------------
(* Instances of FuturesIntent for TLC.                                      *)
EXTENDS FuturesIntent, TLC

Text(owner, epoch, operation, letter, attempt) ==
    [layout |-> "qf1", owner |-> owner, epoch |-> epoch, operation |-> operation, letter |-> letter,
     attempt |-> attempt]

\* A profile beside this one, another writer's store, another operation, the stop of this one, an
\* id spelled otherwise or too large, another layout, the venue's own close, and an attempt that
\* was never recorded.
MCForeignTexts ==
    << Text("other0", <<3>>, <<1, 6>>, "e", <<1>>), Text("k3x9p2", <<2>>, <<1, 6>>, "c", <<1>>),
       Text("k3x9p2", <<3>>, <<1, 7>>, "e", <<1>>), Text("k3x9p2", <<3>>, <<1, 6>>, "s", <<1>>),
       Text("k3x9p2", <<3>>, <<1, 6>>, "e", <<0, 1>>), Text("k3x9p2", <<0, 3>>, <<1, 6>>, "c", <<1>>),
       Text("k3x9p2", <<3>>, <<1, 6>>, "c", <<1, 0, 1>>),
       [Text("k3x9p2", <<3>>, <<1, 6>>, "e", <<1>>) EXCEPT !.layout = "qf2"],
       Text("ADLauto", <<>>, <<>>, "-", <<>>), Text("k3x9p2", <<3>>, <<1, 6>>, "c", <<3>>) >>

ASSUME ReadsWhatItWrites ==
    \A epoch \in {0, 3, 35, 36, MaxEpoch}, operation \in {1, 42, 46656}, leg \in OrderLegs,
      attempt \in {1, 7, 36, MAX_ATTEMPT} :
        LET id == CHOOSE id \in ClientOrderId(Owner, epoch, operation, leg, attempt) : TRUE
        IN ParseOurs(Display(id)) = {id}
=============================================================================

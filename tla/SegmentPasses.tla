--------------------------- MODULE SegmentPasses ---------------------------
(* What one call of refresh_segments leaves behind (storage/refresh.rs).    *)
(* It ends with Ok although it gave windows up: a window it read ATTEMPTS   *)
(* times in vain is Busy, one whose mark went meanwhile is left alone, and  *)
(* the caller hears neither.  So what a pass promises is stated against     *)
(* what changed while it ran, which a history variable keeps.               *)
EXTENDS SegmentStore

VARIABLE changed    \* the windows written or marked since each refresh began

passVars == <<vars, changed>>

\* The windows a step writes or gives a new mark.
Touched ==
    {w \in Windows : \/ Content(w)' # Content(w)
                     \/ dirty'[w] \notin {NoMark, dirty[w]}}

PassInit == Init /\ changed = [r \in Refreshers |-> {}]

PassNext ==
    /\ Next
    /\ changed' = [r \in Refreshers |-> IF phase[r] = "idle" \/ phase'[r] = "idle"
                                        THEN {} ELSE changed[r] \cup Touched]

PassSpec == PassInit /\ [][PassNext]_passVars

PassFairSpec == PassSpec /\ \A r \in Refreshers : WF_vars(GoesOn(r))

-----------------------------------------------------------------------------
(* Properties.                                                              *)

\* Every window below the tip that a pass found and that nobody has changed
\* since it began is packed when the pass ends, or cannot be packed: it gives
\* up no window but for a writer that came in between, and passes over none
\* because of one it gave up (refresh, next_dirty, ATTEMPTS).
LeavesPacked(r) ==
    \A w \in Windows \ changed[r] :
      w < task[r].tip => (dirty[w] = NoMark \/ ~Packable(Content(w)))

PassPacks == [][\A r \in Refreshers : FindNone(r) => LeavesPacked(r)]_passVars
=============================================================================

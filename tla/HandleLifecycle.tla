--------------------------- MODULE HandleLifecycle ---------------------------
(***************************************************************************)
(* What the Native Handle Registry promises (spec 4.1, 7): a handle is     *)
(* unopened, open or closed; open acquires its native resource and close   *)
(* releases it, once; every use of a closed handle, and a second close,    *)
(* reports ClosedResource; a use of an open handle succeeds or reports a   *)
(* native error; a precondition failure, and a call that names no handle, *)
(* change nothing.  `held` is the native resource the handle owns,         *)
(* `outcome` what the last call reported.                                  *)
(* A handle in Preexisting is created outside the registry and handed in   *)
(* open or already closed.                                                 *)
(***************************************************************************)
CONSTANTS Handles, Preexisting

VARIABLES hstate, held, outcome

Outcomes == {"none", "ok", "error", "closed", "invalid", "unbound"}

Init == /\ hstate \in {f \in [Handles -> {"unopened", "open", "closed"}] :
                      \A h \in Handles : (f[h] = "unopened") <=> (h \notin Preexisting)}
        /\ held = [h \in Handles |-> hstate[h] = "open"]
        /\ outcome = "none"

Open(h) ==
  /\ hstate[h] = "unopened"
  /\ \/ /\ hstate' = [hstate EXCEPT ![h] = "open"]
        /\ held' = [held EXCEPT ![h] = TRUE]
        /\ outcome' = "ok"
     \/ outcome' = "error" /\ UNCHANGED <<hstate, held>>

Close(h) ==
  \/ /\ hstate[h] = "open"
     /\ hstate' = [hstate EXCEPT ![h] = "closed"]
     /\ held' = [held EXCEPT ![h] = FALSE]
     /\ outcome' = "ok"
  \/ hstate[h] = "closed" /\ outcome' = "closed" /\ UNCHANGED <<hstate, held>>

Use(h) ==
  /\ hstate[h] # "unopened"
  /\ outcome' \in IF hstate[h] = "open" THEN {"ok", "error"} ELSE {"closed"}
  /\ UNCHANGED <<hstate, held>>

Reject == outcome' = "invalid" /\ UNCHANGED <<hstate, held>>

(* A call that names no handle touches none.                              *)
Unbound == outcome' = "unbound" /\ UNCHANGED <<hstate, held>>

Next == Reject \/ Unbound \/ \E h \in Handles : Open(h) \/ Close(h) \/ Use(h)

Spec == Init /\ [][Next]_<<hstate, held, outcome>>

=============================================================================

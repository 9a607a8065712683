---------------------------- MODULE VaultRegister ----------------------------
(***************************************************************************)
(* What the repository promises its one user: a map from ids to values on  *)
(* which operations take effect at one moment between their start and      *)
(* their success, not at all when they report an error, and either way     *)
(* when the process dies under them.  How the rows are kept, written,      *)
(* signed and checked does not appear here.                                *)
(***************************************************************************)
CONSTANTS Ids, Ops, InitialValues, NoRow

VARIABLES vault,   \* vault[i]: the value of i, or NoRow
          phase,   \* phase[o]: how far operation o has come
          request  \* request[o]: what a running operation asks for

vars == <<vault, phase, request>>

Requests == [kind : {"write", "replace", "purge", "trash", "read"}, id : Ids]
None == [kind |-> "none", id |-> NoRow]

Effect(o) ==
  LET i == request[o].id
  IN  CASE request[o].kind = "write"   -> [vault EXCEPT ![i] = o]
        [] request[o].kind = "replace" -> [j \in Ids |-> IF j = i THEN o ELSE NoRow]
        [] request[o].kind = "purge"   -> [vault EXCEPT ![i] = NoRow]
        [] request[o].kind = "trash"   -> [vault EXCEPT ![i] = IF @ = NoRow THEN NoRow ELSE o]

Init ==
  /\ vault \in [Ids -> InitialValues \cup {NoRow}]
  /\ phase = [o \in Ops |-> "idle"]
  /\ request = [o \in Ops |-> None]

Start(o) ==
  /\ phase[o] = "idle"
  /\ phase' = [phase EXCEPT ![o] = "running"]
  /\ \E r \in Requests : request' = [request EXCEPT ![o] = r]
  /\ UNCHANGED vault

Commit(o) ==
  /\ phase[o] = "running" /\ request[o].kind # "read"
  /\ vault' = Effect(o)
  /\ phase' = [phase EXCEPT ![o] = "committed"]
  /\ UNCHANGED request

End(o, outcome) ==
  /\ phase' = [phase EXCEPT ![o] = outcome]
  /\ request' = [request EXCEPT ![o] = None]
  /\ UNCHANGED vault

Succeed(o) ==
  /\ phase[o] = "committed" \/ (phase[o] = "running" /\ request[o].kind = "read")
  /\ End(o, "acked")

Fail(o) == phase[o] = "running" /\ End(o, "failed")

(* The process dies: every operation it was running is lost together. *)
Die ==
  LET gone == {o \in Ops : phase[o] \in {"running", "committed"}}
  IN  /\ phase' = [o \in Ops |-> IF o \in gone THEN "lost" ELSE phase[o]]
      /\ request' = [o \in Ops |-> IF o \in gone THEN None ELSE request[o]]
      /\ UNCHANGED vault

Next ==
  \/ \E o \in Ops : Start(o) \/ Commit(o) \/ Succeed(o) \/ Fail(o)
  \/ Die

Spec == Init /\ [][Next]_vars
=============================================================================

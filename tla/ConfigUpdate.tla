----------------------------- MODULE ConfigUpdate -----------------------------
(***************************************************************************)
(* What sync-ssh-config promises of a config: a run reads it, learns the   *)
(* addresses of the instances, and then either leaves the config alone or  *)
(* puts in its place, at one stroke and once, what it has read with all    *)
(* addresses that were due, and with no other change.  Of a config saved   *)
(* by others in between nothing is promised but that it is replaced whole. *)
(***************************************************************************)
EXTENDS SshConfig

CONSTANTS Runs, Contents, Saves, Answers

VARIABLES
  config,
  view,   \* the config as each run has read it
  answer, \* the addresses each run has learned
  state   \* how far each run is

Init ==
  /\ config \in Contents
  /\ view = [p \in Runs |-> <<>>]
  /\ answer = [p \in Runs |-> [w \in Words |-> NoIp]]
  /\ state = [p \in Runs |-> "launched"]

Becomes(p, s) == state' = [state EXCEPT ![p] = s]

Read(p) ==
  /\ state[p] = "launched" /\ Becomes(p, "read")
  /\ view' = [view EXCEPT ![p] = config]
  /\ UNCHANGED <<config, answer>>

Learn(p) ==
  /\ state[p] = "read" /\ Becomes(p, "ready")
  /\ \E a \in Answers : answer' = [answer EXCEPT ![p] = a]
  /\ UNCHANGED <<config, view>>

Write(p) ==
  /\ state[p] = "ready" /\ Becomes(p, "over")
  /\ Due(view[p], answer[p]) # {}
  /\ Updated(view[p], config', answer[p])
  /\ UNCHANGED <<view, answer>>

\* A run that has nothing to write, that fails, or that dies.
Leave(p) ==
  /\ state[p] # "over" /\ Becomes(p, "over")
  /\ UNCHANGED <<config, view, answer>>

Save ==
  /\ config' \in Saves
  /\ UNCHANGED <<view, answer, state>>

Next == Save \/ \E p \in Runs : Read(p) \/ Learn(p) \/ Write(p) \/ Leave(p)

Spec == Init /\ [][Next]_<<config, view, answer, state>>
=============================================================================

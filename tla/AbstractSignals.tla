---------------------------- MODULE AbstractSignals ----------------------------
(***************************************************************************)
(* What signals and tackers promise: a connection lasts until it is        *)
(* disconnected or one of its two ends is destroyed, whichever is first.   *)
(***************************************************************************)
CONSTANTS Signals, Tackers, Clones, tacker_of

VARIABLES live,       \* the signals and tackers that exist
          connected   \* for every signal the functors it will call

abs_vars == <<live, connected>>

AbsInit == live = {} /\ connected = [s \in Signals |-> {}]

AbsCreate(x) ==
  /\ x \notin live
  /\ live' = live \cup {x}
  /\ UNCHANGED connected

AbsConnect(s, c) ==
  /\ s \in live
  /\ c \notin UNION {connected[r] : r \in Signals}
  /\ tacker_of[c] \in Tackers => tacker_of[c] \in live
  /\ connected' = [connected EXCEPT ![s] = @ \cup {c}]
  /\ UNCHANGED live

AbsDisconnect(s, R) ==
  /\ s \in live
  /\ connected' = [connected EXCEPT ![s] = @ \ R]
  /\ UNCHANGED live

AbsDestroySignal(s) ==
  /\ s \in live
  /\ live' = live \ {s}
  /\ connected' = [connected EXCEPT ![s] = {}]

AbsDestroyTacker(t) ==
  /\ t \in live
  /\ live' = live \ {t}
  /\ connected' = [s \in Signals |-> {c \in connected[s] : tacker_of[c] # t}]

AbsNext ==
  \/ \E x \in Signals \cup Tackers : AbsCreate(x)
  \/ \E s \in Signals, c \in Clones : AbsConnect(s, c)
  \/ \E s \in Signals, R \in SUBSET Clones : AbsDisconnect(s, R)
  \/ \E s \in Signals : AbsDestroySignal(s)
  \/ \E t \in Tackers : AbsDestroyTacker(t)

AbsSpec == AbsInit /\ [][AbsNext]_abs_vars
================================================================================

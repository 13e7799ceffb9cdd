------------------------------ MODULE CloudCall ------------------------------
(***************************************************************************)
(* What RuijieClient._request promises to the code that calls it, with no  *)
(* token, cache or retry in sight: the cloud carries a call out at most    *)
(* once, a call that returns was carried out, and a call that raises may   *)
(* or may not have been (its answer can be lost).                          *)
(* TokenCache is shown to implement this specification.                    *)
(***************************************************************************)
CONSTANTS Threads     \* callers

VARIABLES status,     \* [Threads -> {"open", "closed"}]: a call is in progress
          carried,    \* [Threads -> Nat]: times the cloud executed that call
          outcome     \* [Threads -> {"none", "ok", "error"}]: of the last call

callVars == <<status, carried, outcome>>

CallInit ==
    /\ status = [t \in Threads |-> "closed"]
    /\ carried = [t \in Threads |-> 0]
    /\ outcome = [t \in Threads |-> "none"]

Open(t) ==
    /\ status[t] = "closed"
    /\ status' = [status EXCEPT ![t] = "open"]
    /\ carried' = [carried EXCEPT ![t] = 0]
    /\ outcome' = [outcome EXCEPT ![t] = "none"]

\* The cloud executes the call; it can do so only once.
CarryOut(t) ==
    /\ status[t] = "open" /\ carried[t] = 0
    /\ carried' = [carried EXCEPT ![t] = 1]
    /\ UNCHANGED <<status, outcome>>

\* The call returns its data: only for work the cloud has done.
Return(t) ==
    /\ status[t] = "open" /\ carried[t] = 1
    /\ status' = [status EXCEPT ![t] = "closed"]
    /\ outcome' = [outcome EXCEPT ![t] = "ok"]
    /\ UNCHANGED carried

\* The call raises, possibly in the very step in which the cloud executed it
\* (the answer is lost on the way back).
Raise(t) ==
    /\ status[t] = "open"
    /\ status' = [status EXCEPT ![t] = "closed"]
    /\ outcome' = [outcome EXCEPT ![t] = "error"]
    /\ \/ UNCHANGED carried
       \/ carried[t] = 0 /\ carried' = [carried EXCEPT ![t] = 1]

CallNext == \E t \in Threads : Open(t) \/ CarryOut(t) \/ Return(t) \/ Raise(t)

CallSpec == CallInit /\ [][CallNext]_callVars
==============================================================================

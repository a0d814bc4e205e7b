----------------------------- MODULE RemoteCall -----------------------------
(***************************************************************************)
(* What invoke() promises to the page that calls it.  The command runs at  *)
(* most once, or twice if the page had to repeat its request.  The promise *)
(* is settled at most once: it is resolved only if a run succeeded, and    *)
(* rejected although one did only if the request was repeated.  It may     *)
(* also stay pending for ever, and it is lost with its page.  A run has    *)
(* succeeded when it returned Ok and a body that can be read: a body that  *)
(* is no JSON is an error to the page, although not to the command.        *)
(***************************************************************************)
EXTENDS Naturals

CONSTANT Commands

VARIABLES
  promise,     \* the state of each call's promise
  ran,         \* how often its command ran
  succeeded,   \* the calls that a run succeeded for, with a body that can be read
  repeated     \* the calls the page sent a second time

vars == <<promise, ran, succeeded, repeated>>

Init ==
  /\ promise = [c \in Commands |-> "none"]
  /\ ran = [c \in Commands |-> 0]
  /\ succeeded = {}
  /\ repeated = {}

Request(c) ==
  /\ promise[c] = "none"
  /\ promise' = [promise EXCEPT ![c] = "pending"]
  /\ UNCHANGED <<ran, succeeded, repeated>>

\* Only a call that has no answer yet is sent again, and only once.
Repeat(c) ==
  /\ promise[c] = "pending"
  /\ c \notin repeated
  /\ repeated' = repeated \cup {c}
  /\ UNCHANGED <<promise, ran, succeeded>>

Run(c) ==
  /\ promise[c] # "none"
  /\ ran[c] = 0 \/ (ran[c] = 1 /\ c \in repeated)
  /\ ran' = [ran EXCEPT ![c] = @ + 1]
  /\ UNCHANGED <<promise, succeeded, repeated>>

Succeed(c) ==
  /\ ran[c] > 0
  /\ succeeded' = succeeded \cup {c}
  /\ UNCHANGED <<promise, ran, repeated>>

Resolve(c) ==
  /\ promise[c] = "pending"
  /\ c \in succeeded
  /\ promise' = [promise EXCEPT ![c] = "resolved"]
  /\ UNCHANGED <<ran, succeeded, repeated>>

Reject(c) ==
  /\ promise[c] = "pending"
  /\ c \in succeeded => c \in repeated
  /\ promise' = [promise EXCEPT ![c] = "rejected"]
  /\ UNCHANGED <<ran, succeeded, repeated>>

\* The page goes away with all of its promises.
Lose ==
  /\ promise' = [c \in Commands |-> IF promise[c] = "pending" THEN "lost" ELSE promise[c]]
  /\ UNCHANGED <<ran, succeeded, repeated>>

Next ==
  \/ \E c \in Commands : \/ Request(c) \/ Repeat(c) \/ Run(c) \/ Succeed(c)
                         \/ Resolve(c) \/ Reject(c)
  \/ Lose

Spec == Init /\ [][Next]_vars
=============================================================================

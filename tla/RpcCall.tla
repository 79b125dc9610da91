------------------------------ MODULE RpcCall -------------------------------
(***************************************************************************)
(* What a remote call promises, without sockets, frames or threads: a call *)
(* either fails or returns the result of its own request, and a request is *)
(* carried out at most once, perhaps only after its caller has given up.   *)
(***************************************************************************)
EXTENDS Naturals

CONSTANTS
    Client,
    MaxCalls   \* bound: how many requests a client makes

VARIABLES
    status,    \* "idle", "calling" or "dead", for each client
    current,   \* the number of each client's latest request
    executed,  \* how often each request was carried out
    result     \* what each client's latest call returned

vars == <<status, current, executed, result>>

Request == [from : Client, seq : 1 .. MaxCalls]

\* What a call returns when it returns false.
Failed == [from |-> "nobody", seq |-> 0]

Init ==
    /\ status = [c \in Client |-> "idle"]
    /\ current = [c \in Client |-> 0]
    /\ executed = [r \in Request |-> 0]
    /\ result = [c \in Client |-> Failed]

Begin(c) ==
    /\ status[c] = "idle"
    /\ status' = [status EXCEPT ![c] = "calling"]
    /\ current' = [current EXCEPT ![c] = @ + 1]
    /\ UNCHANGED <<executed, result>>

\* No request is made: there is no server to send it to.
Refuse(c) ==
    /\ status[c] = "idle"
    /\ result' = [result EXCEPT ![c] = Failed]
    /\ UNCHANGED <<status, current, executed>>

Execute(r) ==
    /\ r.seq <= current[r.from] /\ executed[r] = 0
    /\ executed' = [executed EXCEPT ![r] = 1]
    /\ UNCHANGED <<status, current, result>>

Return(c) ==
    LET r == [from |-> c, seq |-> current[c]]
    IN  /\ status[c] = "calling" /\ executed[r] = 1
        /\ status' = [status EXCEPT ![c] = "idle"]
        /\ result' = [result EXCEPT ![c] = r]
        /\ UNCHANGED <<current, executed>>

Fail(c) ==
    /\ status[c] = "calling"
    /\ status' = [status EXCEPT ![c] = "idle"]
    /\ result' = [result EXCEPT ![c] = Failed]
    /\ UNCHANGED <<current, executed>>

Die(c) ==
    /\ status' = [status EXCEPT ![c] = "dead"]
    /\ UNCHANGED <<current, executed, result>>

Next ==
    \/ \E c \in Client : Begin(c) \/ Refuse(c) \/ Return(c) \/ Fail(c) \/ Die(c)
    \/ \E r \in Request : Execute(r)

Spec == Init /\ [][Next]_vars

=============================================================================

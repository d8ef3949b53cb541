---------------------------- MODULE AtomicQueue ----------------------------
(***************************************************************************)
(* What the queue promises: a set of messages on which publish, claim and  *)
(* ack take effect one at a time, each on the messages as they are at that *)
(* moment.  A claim takes the oldest message available at a clock reading  *)
(* the caller took not after it; an ack removes a message with the token   *)
(* of its current lease.                                                   *)
(***************************************************************************)
EXTENDS Integers

CONSTANTS Ids, Tokens, NoToken, MaxSkew, MaxMillis, MaxAttempts

VARIABLES
    queue,   \* the unacknowledged messages
    past,    \* ids of the messages ever published
    spent,   \* lease tokens ever granted
    time     \* true time

vars == <<queue, past, spent, time>>

Available(message, now) ==
    message.lease.token = NoToken \/ message.lease.expires <= now

Init ==
    /\ queue = {}
    /\ past = {}
    /\ spent = {}
    /\ time = 0

Publish ==
    \E id \in Ids \ past :
        /\ queue' = queue \cup
             {[id |-> id, attempts |-> 0,
               lease |-> [token |-> NoToken, expires |-> 0]]}
        /\ past' = past \cup {id}
        /\ UNCHANGED <<spent, time>>

Claim ==
    \E m \in queue, token \in Tokens \ spent, now, expires \in 0..MaxMillis :
        /\ now <= time + MaxSkew
        /\ now < expires
        /\ Available(m, now)
        /\ \A n \in queue : n.id < m.id => ~Available(n, now)
        /\ m.attempts < MaxAttempts
        /\ queue' = (queue \ {m}) \cup
             {[m EXCEPT !.attempts = @ + 1,
                        !.lease = [token |-> token, expires |-> expires]]}
        /\ spent' = spent \cup {token}
        /\ UNCHANGED <<past, time>>

Ack ==
    \E m \in queue :
        /\ m.lease.token # NoToken
        /\ queue' = queue \ {m}
        /\ UNCHANGED <<past, spent, time>>

Tick == time' = time + 1 /\ UNCHANGED <<queue, past, spent>>

Next == Publish \/ Claim \/ Ack \/ Tick

Spec == Init /\ [][Next]_vars
============================================================================

------------------------------- MODULE Streams -------------------------------
(***************************************************************************)
(* The two ways in which what runs in the background reaches a client:     *)
(* the stream of the request that started it (StreamOwner), or the stream  *)
(* of a turn that a worker of the queue runs (QueuedTurn).  They share     *)
(* nothing: in a behaviour one of the two is at work.                      *)
(***************************************************************************)
EXTENDS Naturals, Sequences

CONSTANTS
  Kinds, Capacity, MaxItems,                                  \* of StreamOwner
  Clients, Brokers, MaxFrames, MaxJobs, MaxDrops, ReplayLimit \* of QueuedTurn

VARIABLES kind, producer, channel, owner, request, closer, client
VARIABLES broker, job, history, feed, streams, clients

Owner == INSTANCE StreamOwner
Queued == INSTANCE QueuedTurn

ASSUME StreamsAssumption == Owner!StreamAssumption /\ Queued!QueuedTurnAssumption

ownerVars == <<kind, producer, channel, owner, request, closer, client>>
queuedVars == <<broker, job, history, feed, streams, clients>>
vars == <<ownerVars, queuedVars>>

\* A request that is over, and a turn that everybody has seen the end of.
NoRequest ==
  /\ kind = "chat" /\ request = [at |-> "over", message |-> "none", item |-> 0]
  /\ producer = [at |-> "done", sent |-> 0, pending |-> FALSE, cancels |-> 0]
  /\ channel = [items |-> <<>>, sender |-> FALSE, receiver |-> FALSE]
  /\ owner = [deadline |-> "passed", timedOut |-> FALSE, observed |-> TRUE, logged |-> FALSE]
  /\ closer = [c \in Owner!Closers |-> [at |-> "closed", interrupted |-> FALSE]]
  /\ client = [got |-> <<>>, last |-> "none", gone |-> TRUE]

NoTurn ==
  /\ broker = "memory" /\ job = [at |-> "over", count |-> MaxJobs, seq |-> 0]
  /\ history = <<>> /\ feed = <<>>
  /\ streams = [c \in Clients |-> Queued!NoStream]
  /\ clients = [c \in Clients |->
       [seqs |-> <<>>, told |-> TRUE, drops |-> MaxDrops, truncated |-> FALSE, overtaken |-> FALSE,
        displaced |-> FALSE]]

Init == (Owner!Init /\ NoTurn) \/ (Queued!Init /\ NoRequest)

Next == (Owner!Next /\ UNCHANGED queuedVars) \/ (Queued!Next /\ UNCHANGED ownerVars)

Spec == Init /\ [][Next]_vars /\ Owner!Fairness /\ Queued!Fairness

-----------------------------------------------------------------------------
\* The items of a request's stream reach its client in order and with no gap, the message
\* that ends the stream last (core/_streaming.py:141).
InOrder == Owner!InOrder

\* No producer outlives its request unless it was cancelled twice and reported, and none
\* fails unheard (core/_streaming.py:62).
Contained == Owner!Contained

\* A request ends, even if its producer ignores every cancellation.
RequestEnds == Owner!RequestEnds

\* A client of a queued turn gets every frame once and in order, however often it
\* connects again (queues/bridge.py:121).
OnceInOrder == Queued!OnceInOrder

\* A client of a queued turn that connects again after every end gets the terminal frame
\* (queues/bridge.py:121).
TurnTold == Queued!TurnTold

\* A ping keeps a connection to a queued turn alive (queues/bridge.py:151); it does not.
PingKeepsAlive == Queued!PingKeepsAlive

=============================================================================

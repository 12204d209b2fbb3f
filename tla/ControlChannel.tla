--------------------------- MODULE ControlChannel ---------------------------
(***************************************************************************)
(* The live channel of a client to an adapter process: _start_transport,   *)
(* _rpc, _fail, _read, _keepalive and close of class ControlSession in     *)
(* client/control_session.py, which ClaimSession shares.                   *)
(*                                                                         *)
(* Several threads call _rpc at a time (the task, the heartbeat, the       *)
(* renewal); a reader thread hands each answer to the call it belongs to.  *)
(* What runs under one of the two locks is one step; the registering of a  *)
(* call, its writing and the wait for its answer are separate steps.  A    *)
(* failure is for good: nothing is sent again.                             *)
(***************************************************************************)
EXTENDS Integers, FiniteSets, Sequences

CONSTANTS
  Thread,     \* callers of one session
  MaxCalls    \* bound on the calls of a thread

CallsAreBounded == MaxCalls \in Nat /\ IsFiniteSet(Thread)

VARIABLES
  call,     \* [thread -> its current call: where it is, its number, its answer]
  chan,     \* the session: pending calls, failure, stopped, request_sequence
  adapter   \* the adapter process: its input, the answers it wrote, last number

channelVars == <<call, chan, adapter>>

Idle(n) == [at |-> "idle", n |-> n, mail |-> "none"]
Id(t) == <<t, call[t].n>>
Answers == {"accepted", "refused"}

ChannelTypeOK ==
  /\ call \in [Thread -> [at : {"idle", "registered", "sent"}, n : 0..MaxCalls,
                          mail : {"none", "failed"} \union Answers]]
  /\ chan.pending \subseteq Thread \X (1..MaxCalls)
  /\ chan.failed \in BOOLEAN /\ chan.stopped \in BOOLEAN
  /\ chan.reading \in BOOLEAN /\ chan.open \in BOOLEAN
  /\ chan.sequence \in 0..(MaxCalls * Cardinality(Thread))
  /\ adapter.up \in BOOLEAN /\ adapter.last \in 0..chan.sequence
  /\ adapter.input \in Seq([id : Thread \X (1..MaxCalls), number : Nat])
  /\ adapter.output \in Seq([id : Thread \X (1..MaxCalls), answer : Answers])

\* _start_transport: the adapter runs, the reader reads.
ChannelInit ==
  /\ call = [t \in Thread |-> Idle(0)]
  /\ chan = [pending |-> {}, failed |-> FALSE, stopped |-> FALSE, reading |-> TRUE,
             open |-> TRUE, sequence |-> 0]
  /\ adapter = [up |-> TRUE, input |-> <<>>, output |-> <<>>, last |-> 0]

\* _fail: the first error stays, and every pending call gets it.
Failed(c) == [c EXCEPT !.failed = TRUE, !.pending = {}]

\* Mutant of Woken: a call that is not written yet is not told.
WokenSent == [t \in Thread |-> IF Id(t) \in chan.pending /\ call[t].at = "sent"
                               THEN [call[t] EXCEPT !.mail = "failed"] ELSE call[t]]

Woken == [t \in Thread |-> IF Id(t) \in chan.pending
                           THEN [call[t] EXCEPT !.mail = "failed"] ELSE call[t]]

Fail == chan' = Failed(chan) /\ call' = Woken

\* _rpc, under the lock: a call of a failed or stopped session is refused.
Register(t) ==
  /\ call[t].at = "idle" /\ call[t].n < MaxCalls
  /\ ~chan.failed /\ ~chan.stopped
  /\ call' = [call EXCEPT ![t] = [at |-> "registered", n |-> call[t].n + 1, mail |-> "none"]]
  /\ chan' = [chan EXCEPT !.pending = @ \union {<<t, call[t].n + 1>>}]
  /\ UNCHANGED adapter

\* Mutant: the number is taken before the size is looked at.
TooLargeUsesNumber(t) ==
  /\ call[t].at = "registered"
  /\ chan' = [chan EXCEPT !.pending = @ \ {Id(t)}, !.sequence = @ + 1]
  /\ call' = [call EXCEPT ![t] = Idle(call[t].n)]
  /\ UNCHANGED adapter

\* Under the lock of the writers.  A request that is too large uses no number.
TooLarge(t) ==
  /\ call[t].at = "registered"
  /\ chan' = [chan EXCEPT !.pending = @ \ {Id(t)}]
  /\ call' = [call EXCEPT ![t] = Idle(call[t].n)]
  /\ UNCHANGED adapter

Write(t) ==
  /\ call[t].at = "registered"
  /\ chan.open /\ adapter.up
  /\ chan' = [chan EXCEPT !.sequence = @ + 1]
  /\ adapter' = [adapter EXCEPT !.input =
                   Append(@, [id |-> Id(t), number |-> chan.sequence + 1])]
  /\ call' = [call EXCEPT ![t] = [call[t] EXCEPT !.at = "sent"]]

\* The pipe is closed or nobody reads it, or no answer comes in time: the
\* session has failed, and the call may or may not have been carried out.
GivesUp(t) ==
  /\ \/ call[t].at = "registered" /\ ~(chan.open /\ adapter.up)
     \/ call[t].at = "sent" /\ call[t].mail = "none"
  /\ chan' = Failed(chan)
  /\ call' = [Woken EXCEPT ![t] = Idle(call[t].n)]
  /\ UNCHANGED adapter

Return(t) ==
  /\ call[t].at = "sent" /\ call[t].mail # "none"
  /\ call' = [call EXCEPT ![t] = Idle(call[t].n)]
  /\ UNCHANGED <<chan, adapter>>

\* The reader: an answer goes to its own call; one nobody waits for, like the
\* end of the stream, fails the session and ends the reader.
Read ==
  /\ chan.reading /\ adapter.output # <<>>
  /\ adapter' = [adapter EXCEPT !.output = Tail(@)]
  /\ LET reply == Head(adapter.output)
         t == reply.id[1]
     IN IF reply.id \in chan.pending
        THEN /\ chan' = [chan EXCEPT !.pending = @ \ {reply.id}]
             /\ call' = [call EXCEPT ![t] = [call[t] EXCEPT !.mail = reply.answer]]
        ELSE /\ chan' = [Failed(chan) EXCEPT !.reading = FALSE]
             /\ call' = Woken

ReadEnds ==
  /\ chan.reading
  /\ chan.stopped \/ (~adapter.up /\ adapter.output = <<>>)
  /\ chan' = IF chan.stopped THEN [chan EXCEPT !.reading = FALSE]
             ELSE [Failed(chan) EXCEPT !.reading = FALSE]
  /\ call' = IF chan.stopped THEN call ELSE Woken
  /\ UNCHANGED adapter

\* The adapter serves one frame after the other, and leaves at the first one
\* out of order (admission_channel.py:82-88), at the end of its input, or dies.
Serve ==
  /\ adapter.up /\ adapter.input # <<>>
  /\ LET request == Head(adapter.input) IN
     IF request.number # adapter.last + 1
     THEN adapter' = [adapter EXCEPT !.up = FALSE]
     ELSE \E a \in Answers :
            adapter' = [adapter EXCEPT !.input = Tail(@), !.last = request.number,
                          !.output = Append(@, [id |-> request.id, answer |-> a])]
  /\ UNCHANGED <<call, chan>>

AdapterEnds ==
  /\ adapter.up
  /\ adapter' = [adapter EXCEPT !.up = FALSE]
  /\ UNCHANGED <<call, chan>>

\* close(), also from _keepalive when the owner, its claim or its intent is
\* gone: stop, fail, close the pipe, and reap the adapter.
Stop ==
  /\ ~chan.stopped
  /\ chan' = [chan EXCEPT !.stopped = TRUE]
  /\ UNCHANGED <<call, adapter>>

FailStopped ==
  /\ chan.stopped /\ chan.open
  /\ Fail
  /\ UNCHANGED adapter

ClosePipe ==
  /\ chan.stopped /\ chan.failed /\ chan.open
  /\ chan' = [chan EXCEPT !.open = FALSE]
  /\ UNCHANGED <<call, adapter>>

\* The heartbeat thread finds the session over: failed first, then closed.
KeepaliveFails ==
  /\ ~chan.stopped /\ ~chan.failed
  /\ Fail
  /\ UNCHANGED adapter

ChannelNext ==
  \/ \E t \in Thread : Register(t) \/ TooLarge(t) \/ Write(t) \/ GivesUp(t) \/ Return(t)
  \/ Read \/ ReadEnds \/ Serve \/ AdapterEnds
  \/ Stop \/ FailStopped \/ ClosePipe \/ KeepaliveFails

ChannelSpec == ChannelInit /\ [][ChannelNext]_channelVars

-----------------------------------------------------------------------------

\* Nobody waits for what cannot come: once the session has failed, every call
\* that is still under way has its answer, also one that was registered but
\* not yet written when another thread failed.
FailureReachesEveryCall ==
  chan.failed => \A t \in Thread : call[t].at # "idle" => call[t].mail # "none"

\* The adapter never sees a number out of order, whatever threads wrote at the
\* same time and whatever was refused before it was written: it would end the
\* session for it.
NumbersAreInOrder ==
  \A i \in 1..Len(adapter.input) : adapter.input[i].number = adapter.last + i

=============================================================================

---------------------------- MODULE GuestStreams ----------------------------
(***************************************************************************)
(* The streaming service of the guest agent: one output stream of a process *)
(* that several attached clients take from each other, and one input stream *)
(* with its flow-control window.                                            *)
(*                                                                          *)
(* An IOChannel lives in `ios` from the first attach until the output ends; *)
(* an attach after that makes another one under the same id.  The mutex on  *)
(* `ios` is held for a step, and released between a step and the next.      *)
(***************************************************************************)
EXTENDS Naturals, Sequences, FiniteSets

CONSTANTS
  Clients,     \* attach requests; each is made once
  MaxData,     \* bound: chunks the process writes
  Capacity,    \* of the mpsc channel (128 in the code)
  Tries,       \* attempts of preempt_receiver (10 in the code)
  Window,      \* WINDOW_SIZE
  MaxInput     \* bound: chunks of input

VARIABLES
  ios,         \* the channel under the id: 0, or which one of those made
  chans,       \* the channels made so far
  writer,      \* the copy of the process's output
  written,     \* chunks it has written
  client,      \* per client: its handler
  out,         \* chunks sent to clients, in order
  input        \* the input stream

streamVars == <<ios, chans, writer, written, client, out, input>>

\* receiver: 0, or the channel whose queue the receiver in the map reads.
NewChannel(n) ==
  [sender |-> TRUE, receiver |-> n, remaining |-> 0, preempts |-> {}, permit |-> FALSE,
   queue |-> <<>>, open |-> TRUE, read |-> TRUE]

\* entry().or_insert: the channels, and which one is under the id.
Entry == IF ios # 0 THEN [cs |-> chans, n |-> ios]
         ELSE [cs |-> Append(chans, NewChannel(Len(chans) + 1)), n |-> Len(chans) + 1]

At(x, pc) == client[x].pc = pc
Goto(x, pc) == client' = [client EXCEPT ![x].pc = pc]

-----------------------------------------------------------------------------
(* handle_stdout. *)

Attach(x) ==
  /\ At(x, "new") /\ Goto(x, "get")
  /\ UNCHANGED <<ios, chans, writer, written, out, input>>

\* Mutant: the receiver is not taken out of the channel.
GetShared(x) ==
  /\ At(x, "get")
  /\ LET e == Entry IN
       /\ ios' = e.n
       /\ chans' = [e.cs EXCEPT ![e.n].preempts = {x}]
       /\ client' = [client EXCEPT ![x].pc = "remaining", ![x].holds = e.cs[e.n].receiver]
  /\ UNCHANGED <<writer, written, out, input>>

\* One round of preempt_receiver: take the receiver, or tell who holds it to
\* return it and wait.
Get(x) ==
  /\ At(x, "get")
  /\ LET e == Entry
         ch == e.cs[e.n]
     IN  /\ ios' = e.n
         /\ IF ch.receiver # 0
            THEN /\ chans' = [e.cs EXCEPT ![e.n].receiver = 0, ![e.n].preempts = {x}]
                 /\ client' = [client EXCEPT ![x].pc = "remaining", ![x].holds = ch.receiver]
            ELSE /\ chans' = [e.cs EXCEPT ![e.n].preempts = {}]
                 /\ client' = [y \in Clients |->
                      IF y = x THEN [client[x] EXCEPT !.pc = "wait", !.on = e.n, !.tries = @ + 1]
                      ELSE IF y \in ch.preempts THEN [client[y] EXCEPT !.preempted = TRUE]
                      ELSE client[y]]
  /\ UNCHANGED <<writer, written, out, input>>

Notified(x) ==
  /\ At(x, "wait") /\ chans[client[x].on].permit
  /\ chans' = [chans EXCEPT ![client[x].on].permit = FALSE]
  /\ Goto(x, IF client[x].tries = Tries THEN "err" ELSE "get")
  /\ UNCHANGED <<ios, writer, written, out, input>>

\* get_remaining_data looks under the id again.
Remaining(x) ==
  /\ At(x, "remaining")
  /\ LET d == IF ios = 0 THEN 0 ELSE chans[ios].remaining IN
       /\ client' = [client EXCEPT ![x].pc = IF d = 0 THEN "recv" ELSE "send", ![x].data = d]
       /\ chans' = IF d = 0 THEN chans ELSE [chans EXCEPT ![ios].remaining = 0]
  /\ UNCHANGED <<ios, writer, written, out, input>>

Queue(x) == chans[client[x].holds].queue

Recv(x) ==
  /\ At(x, "recv")
  /\ IF Queue(x) # <<>>
     THEN /\ client' = [client EXCEPT ![x].pc = "send", ![x].data = Head(Queue(x))]
          /\ chans' = [chans EXCEPT ![client[x].holds].queue = Tail(@)]
     ELSE /\ ~chans[client[x].holds].open
          /\ client' = [client EXCEPT ![x].pc = "end", ![x].holds = 0]
          /\ chans' = [chans EXCEPT ![client[x].holds].read = FALSE]
  /\ UNCHANGED <<ios, writer, written, out, input>>

\* Mutant: nobody is notified.
ReturnSilently(x, d) ==
  /\ client' = [client EXCEPT ![x].pc = "err", ![x].holds = 0]
  /\ chans' = IF ios = 0
              THEN [chans EXCEPT ![client[x].holds].read = FALSE]
              ELSE [chans EXCEPT ![ios].receiver = client[x].holds, ![ios].remaining = d]

\* return_preempted_receiver puts it into whatever channel is under the id now.
Return(x, d) ==
  /\ client' = [client EXCEPT ![x].pc = "err", ![x].holds = 0]
  /\ chans' = IF ios = 0
              THEN [chans EXCEPT ![client[x].holds].read = FALSE]
              ELSE [chans EXCEPT ![ios].receiver = client[x].holds, ![ios].remaining = d,
                                 ![ios].permit = TRUE]

Preempted(x) ==
  /\ At(x, "recv") /\ client[x].preempted
  /\ Return(x, 0)
  /\ UNCHANGED <<ios, writer, written, out, input>>

Send(x) ==
  /\ At(x, "send")
  /\ out' = Append(out, client[x].data)
  /\ Goto(x, "recv")
  /\ UNCHANGED <<ios, chans, writer, written, input>>


\* The client is gone: the chunk goes back with the receiver.
SendFails(x) ==
  /\ At(x, "send")
  /\ Return(x, client[x].data)
  /\ UNCHANGED <<ios, writer, written, out, input>>

-----------------------------------------------------------------------------
(* spawn_copy_from: get_output, copy, remove_channel. *)

GetOutput ==
  /\ writer.pc = "start"
  /\ IF ios # 0 /\ chans[ios].sender
     THEN /\ writer' = [pc |-> "copy", n |-> ios]
          /\ chans' = [chans EXCEPT ![ios].sender = FALSE]
     ELSE writer' = [pc |-> "end", n |-> 0] /\ UNCHANGED chans
  /\ UNCHANGED <<ios, written, client, out, input>>

WriteOutput ==
  /\ writer.pc = "copy" /\ written < MaxData
  /\ chans[writer.n].read /\ Len(chans[writer.n].queue) < Capacity
  /\ written' = written + 1
  /\ chans' = [chans EXCEPT ![writer.n].queue = Append(@, written + 1)]
  /\ UNCHANGED <<ios, writer, client, out, input>>

\* The process closes its output, or nothing reads the channel any more: the
\* sender is dropped.
OutputEnds ==
  /\ writer.pc = "copy"
  /\ chans' = [chans EXCEPT ![writer.n].open = FALSE]
  /\ writer' = [writer EXCEPT !.pc = "remove"]
  /\ UNCHANGED <<ios, written, client, out, input>>

\* The channel that is under the id now goes, with a receiver that is in it.
RemoveChannel ==
  /\ writer.pc = "remove"
  /\ ios' = 0
  /\ chans' = IF ios # 0 /\ chans[ios].receiver # 0
              THEN [chans EXCEPT ![chans[ios].receiver].read = FALSE] ELSE chans
  /\ writer' = [writer EXCEPT !.pc = "end"]
  /\ UNCHANGED <<written, client, out, input>>

-----------------------------------------------------------------------------
(* handle_stdin: a client may send as much as it was granted. *)

\* Mutant: a full window is granted again.
GrantAtWindow ==
  /\ input.pc = "grant"
  /\ input' = IF input.window <= Window
              THEN [input EXCEPT !.pc = "recv", !.window = @ + Window, !.credit = @ + Window]
              ELSE [input EXCEPT !.pc = "recv"]
  /\ UNCHANGED <<ios, chans, writer, written, client, out>>

Grant ==
  /\ input.pc = "grant"
  /\ input' = IF input.window < Window
              THEN [input EXCEPT !.pc = "recv", !.window = @ + Window, !.credit = @ + Window]
              ELSE [input EXCEPT !.pc = "recv"]
  /\ UNCHANGED <<ios, chans, writer, written, client, out>>

ClientSends(len) ==
  /\ len <= input.credit /\ input.sent < MaxInput
  /\ input' = [input EXCEPT !.credit = @ - len, !.flight = Append(@, len), !.sent = @ + 1]
  /\ UNCHANGED <<ios, chans, writer, written, client, out>>

ReceiveInput ==
  /\ input.pc = "recv" /\ input.flight # <<>>
  /\ input' = [input EXCEPT !.pc = "grant", !.flight = Tail(@), !.window = @ - Head(input.flight)]
  /\ UNCHANGED <<ios, chans, writer, written, client, out>>

\* The end of the stream removes the channel; an error only drops the sender.
InputEnds ==
  /\ input.pc = "recv" /\ input.flight = <<>>
  /\ \E pc \in {"removed", "lost"} : input' = [input EXCEPT !.pc = pc]
  /\ UNCHANGED <<ios, chans, writer, written, client, out>>

-----------------------------------------------------------------------------
StreamInit ==
  /\ ios = 0 /\ chans = <<>> /\ written = 0 /\ out = <<>>
  /\ writer = [pc |-> "start", n |-> 0]
  /\ client = [x \in Clients |-> [pc |-> "new", holds |-> 0, on |-> 0, tries |-> 0, data |-> 0,
                                  preempted |-> FALSE]]
  /\ input = [pc |-> "grant", window |-> 0, credit |-> 0, flight |-> <<>>, sent |-> 0]

Handler(x) == Get(x) \/ Notified(x) \/ Remaining(x) \/ Recv(x) \/ Preempted(x) \/ Send(x)
Output == GetOutput \/ WriteOutput \/ OutputEnds \/ RemoveChannel
OutputNext == (\E x \in Clients : Attach(x) \/ Handler(x) \/ SendFails(x)) \/ Output
InputNext == Grant \/ ReceiveInput \/ InputEnds \/ \E len \in 1..2 * Window : ClientSends(len)

\* The two directions share nothing.
StreamNext == OutputNext \/ InputNext

StreamSpec == StreamInit /\ [][StreamNext]_streamVars

\* A handler's task runs when it can, and select! does not always choose data
\* over the preemption that is ready beside it.
StreamFairness ==
  \A x \in Clients : WF_streamVars(Handler(x)) /\ SF_streamVars(Preempted(x))

StreamFair == StreamSpec /\ StreamFairness

-----------------------------------------------------------------------------
(* Properties. *)


\* One handler at a time reads a queue, and none while the receiver is in a
\* channel.
OneReader ==
  \A n \in DOMAIN chans :
    Cardinality({x \in Clients : client[x].holds = n})
      + Cardinality({m \in DOMAIN chans : chans[m].receiver = n}) <= 1

\* What the client may still send and what is on the way is what the handler
\* granted and has not seen, and stays below two windows.
WindowMatchesCredit ==
  LET Sum[k \in 0..Len(input.flight)] == IF k = 0 THEN 0 ELSE input.flight[k] + Sum[k - 1] IN
  /\ input.window = input.credit + Sum[Len(input.flight)]
  /\ input.window < 2 * Window

\* Of two clients, the one that comes second gets the stream as long as the
\* process has not closed it.
GetsStream(x) == At(x, "wait") ~> ~At(x, "wait") \/ writer.pc \notin {"start", "copy"}

=============================================================================

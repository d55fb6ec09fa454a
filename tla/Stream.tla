------------------------------- MODULE Stream -------------------------------
(***************************************************************************)
(* The pipe from the controller to one node: what sender of                *)
(* speedling/control.py writes into it, and how input_handler, task_exec   *)
(* and stream_reader of speedling/receiver.py take it apart again.         *)
(*                                                                         *)
(* A message is its size and its body.  A stream call's message is         *)
(* followed by chunks, each with its size in front, and a zero size.  The  *)
(* node's input thread runs the function of a stream call itself, and the  *)
(* function reads its chunks from the same pipe through a stream_reader.   *)
(*                                                                         *)
(* The pipe is a sequence of units: a size, a body, or a piece of data.    *)
(* Reading a size where a piece of data is gives any number of Garbage.    *)
(***************************************************************************)
EXTENDS Naturals, Sequences, SequencesExt

CONSTANTS
  Call,         \* the calls to the node (task_id)
  Chunks,       \* Chunks[c]: sizes of the chunks of a stream call's stream
  IsStream,     \* the calls with msg_type input_stream
  Garbage,      \* what data can look like when it is read as a size
  None

ASSUME StreamAssumption == IsStream \subseteq Call
ASSUME ChunksAssumption == Chunks \in [Call -> Seq(Nat \ {0})]
ASSUME GarbageAssumption == Garbage \subseteq Nat
ASSUME NoneAssumption == None \notin Call \cup {"ok", "error"}

VARIABLES
  unsent,           \* the calls nobody has written into the pipe yet
  pipe,             \* the units written and not read
  closed,           \* has the connection ended?
  fd_open,          \* is the node's end still open? (INPUTFD)
  pc,               \* the input thread: "size", "body", "exec", "check",
                    \* "drain", "dead"
  to_read,          \* how much of the body is still to be read
  msg,              \* the body read so far
  task,             \* the stream call being executed, or None
  chunk_remaining,  \* stream_reader.chunk_remainig
  eof,              \* stream_reader.eof
  terminate,        \* receiver.terminate
  threads,          \* the calls executed in threads
  got,              \* got[c]: what the function of c has read
  status,           \* status[c]: "ok", "error", None before the end
  raised_early      \* the calls whose function raised before the end of its
                    \* stream (history, for the properties)

readerVars == <<chunk_remaining, eof>>
vars == <<unsent, pipe, closed, fd_open, pc, to_read, msg, task, readerVars,
          terminate, threads, got, status, raised_early>>

\* Units know what they belong to.  Of a size the node reads n only: the
\* size of message c is number 0, of its chunks 1, 2, ..., then comes the zero.
Size(c, i, n) == [unit |-> "size", call |-> c, chunk |-> i, n |-> n]
Body(c) == [unit |-> "body", call |-> c]
Data(c, i, j) == [unit |-> "data", call |-> c, chunk |-> i, piece |-> j]

\* The pieces of chunk i of call c, and all of its stream.
Chunk(c, i) == [j \in 1 .. Chunks[c][i] |-> Data(c, i, j)]
Content(c) == FlattenSeq([i \in DOMAIN Chunks[c] |-> Chunk(c, i)])

Init ==
  /\ unsent = Call
  /\ pipe = <<>>
  /\ closed = FALSE
  /\ fd_open = TRUE
  /\ pc = "size"
  /\ to_read = 0
  /\ msg = <<>>
  /\ task = None
  /\ chunk_remaining = 0
  /\ eof = FALSE
  /\ terminate = FALSE
  /\ threads = {}
  /\ got = [c \in Call |-> <<>>]
  /\ status = [c \in Call |-> None]
  /\ raised_early = {}

-----------------------------------------------------------------------------
(* The controller.  How much of it the node sees at a time is up to the    *)
(* reads, so a call is written in one step.                                *)

\* Faulty variant: an empty stream gets no zero size.
FramesNoEnd(c) ==
  FlattenSeq([i \in DOMAIN Chunks[c] |-> <<Size(c, i, Chunks[c][i])>> \o Chunk(c, i)])
  \o IF Chunks[c] = <<>> THEN <<>> ELSE <<Size(c, Len(Chunks[c]) + 1, 0)>>

Frames(c) ==
  FlattenSeq([i \in DOMAIN Chunks[c] |-> <<Size(c, i, Chunks[c][i])>> \o Chunk(c, i)])
  \o <<Size(c, Len(Chunks[c]) + 1, 0)>>

Message(c) ==
  <<Size(c, 0, 1), Body(c)>> \o (IF c \in IsStream THEN Frames(c) ELSE <<>>)

Send(c) ==
  /\ c \in unsent
  /\ ~closed
  /\ unsent' = unsent \ {c}
  /\ pipe' = pipe \o Message(c)
  /\ UNCHANGED <<closed, fd_open, pc, to_read, msg, task, readerVars,
                 terminate, threads, got, status, raised_early>>

\* The connection ends and what was on its way may be cut.
Close ==
  /\ ~closed
  /\ closed' = TRUE
  /\ \E n \in 0 .. Len(pipe) : pipe' = SubSeq(pipe, 1, n)
  /\ UNCHANGED <<unsent, fd_open, pc, to_read, msg, task, readerVars,
                 terminate, threads, got, status, raised_early>>

-----------------------------------------------------------------------------
(* Reading.                                                                *)

\* read_ll: the next unit taken as a size; the end of the pipe is no size.
Sizes == CASE pipe = <<>>                -> {}
           [] pipe # <<>> /\ Head(pipe).unit = "size" -> {Head(pipe).n}
           [] OTHER                      -> Garbage

AtEnd == pipe = <<>> /\ closed

\* os.read(fd, n): at least one unit and at most n of s; nothing at the end.
OsRead(s, n) ==
  IF s # <<>> THEN {SubSeq(s, 1, k) : k \in {m \in 1 .. Len(s) : m <= n}}
  ELSE IF closed THEN {<<>>} ELSE {}

\* stream_reader.read() returning buf.
ReadRest(buf) ==  \* more of a chunk
  /\ ~eof
  /\ chunk_remaining > 0
  /\ buf \in OsRead(pipe, chunk_remaining)
  /\ pipe' = SubSeq(pipe, Len(buf) + 1, Len(pipe))
  /\ chunk_remaining' = chunk_remaining - Len(buf)
  /\ UNCHANGED <<eof, fd_open>>

\* Faulty variant: what is left of a chunk is forgotten.
ReadChunkOnce(buf) ==
  /\ ~eof
  /\ chunk_remaining = 0
  /\ \E next_size \in Sizes \ {0} :
       /\ buf \in OsRead(Tail(pipe), next_size)
       /\ pipe' = SubSeq(pipe, Len(buf) + 2, Len(pipe))
  /\ UNCHANGED <<chunk_remaining, eof, fd_open>>

ReadChunk(buf) ==  \* the start of a chunk
  /\ ~eof
  /\ chunk_remaining = 0
  /\ \E next_size \in Sizes \ {0} :
       /\ buf \in OsRead(Tail(pipe), next_size)
       /\ pipe' = SubSeq(pipe, Len(buf) + 2, Len(pipe))
       /\ chunk_remaining' = next_size - Len(buf)
  /\ UNCHANGED <<eof, fd_open>>

ReadEnd(buf) ==  \* the zero size; or the end of the pipe, which is closed
  /\ ~eof
  /\ chunk_remaining = 0
  /\ buf = <<>>
  /\ eof' = TRUE
  /\ \/ 0 \in Sizes /\ pipe' = Tail(pipe) /\ UNCHANGED fd_open
     \/ AtEnd /\ fd_open' = FALSE /\ UNCHANGED pipe
  /\ UNCHANGED chunk_remaining

ReadAgain(buf) ==  \* after the end
  /\ eof
  /\ buf = <<>>
  /\ UNCHANGED <<pipe, readerVars, fd_open>>

Read(buf) == ReadRest(buf) \/ ReadChunk(buf) \/ ReadEnd(buf) \/ ReadAgain(buf)

\* What a read can return: some units from the front of the pipe.
Bufs == {SubSeq(pipe, i, j) : i \in {1, 2}, j \in 0 .. Len(pipe)}

-----------------------------------------------------------------------------
(* The input thread.                                                       *)

\* The size of the next message.  Zero and the end of the pipe end the
\* thread and, with terminate, the whole receiver; a pipe that a stream has
\* closed before is an error that ends the thread only.
ReadSize ==
  /\ pc = "size"
  /\ \/ \E n \in Sizes \ {0} :
          /\ pipe' = Tail(pipe)
          /\ to_read' = n
          /\ msg' = <<>>
          /\ pc' = "body"
          /\ UNCHANGED <<terminate, fd_open>>
     \/ /\ 0 \in Sizes
        /\ pipe' = Tail(pipe)
        /\ terminate' = TRUE
        /\ pc' = "dead"
        /\ UNCHANGED <<to_read, msg, fd_open>>
     \/ /\ AtEnd
        /\ terminate' = fd_open
        /\ fd_open' = FALSE
        /\ pc' = "dead"
        /\ UNCHANGED <<pipe, to_read, msg>>
  /\ UNCHANGED <<unsent, closed, task, readerVars, threads, got, status,
                 raised_early>>

ReadBody ==
  /\ pc = "body"
  /\ to_read > 0
  /\ \E chunk \in OsRead(pipe, to_read) :
       /\ pipe' = SubSeq(pipe, Len(chunk) + 1, Len(pipe))
       /\ to_read' = to_read - Len(chunk)
       /\ msg' = msg \o chunk
       /\ terminate' = (chunk = <<>>)
       /\ fd_open' = (chunk # <<>>)
       /\ pc' = IF chunk = <<>> THEN "dead" ELSE pc
  /\ UNCHANGED <<unsent, closed, task, readerVars, threads, got, status,
                 raised_early>>

\* pickle.loads raises unless msg is exactly one body; a function call gets
\* a thread, the input thread stays with a stream call.
Dispatch ==
  /\ pc = "body"
  /\ to_read = 0
  /\ \/ \E c \in Call \ IsStream :
          /\ msg = <<Body(c)>>
          /\ threads' = threads \cup {c}
          /\ pc' = "size"
          /\ UNCHANGED <<task, readerVars>>
     \/ \E c \in IsStream :
          /\ msg = <<Body(c)>>
          /\ task' = c
          /\ chunk_remaining' = 0
          /\ eof' = FALSE
          /\ pc' = "exec"
          /\ UNCHANGED threads
     \/ /\ \A c \in Call : msg # <<Body(c)>>
        /\ pc' = "dead"
        /\ UNCHANGED <<task, threads, readerVars>>
  /\ UNCHANGED <<unsent, pipe, closed, fd_open, to_read, msg, terminate, got,
                 status, raised_early>>

-----------------------------------------------------------------------------
(* task_exec for a stream call.                                            *)

Answer(s) ==
  /\ status' = [status EXCEPT ![task] = s]
  /\ task' = None
  /\ pc' = "size"

\* The function reads, over its end if it likes ...
FunctionReads ==
  /\ pc = "exec"
  /\ \E buf \in Bufs :
       /\ Read(buf)
       /\ got' = [got EXCEPT ![task] = @ \o buf]
  /\ UNCHANGED <<unsent, closed, pc, to_read, msg, task, terminate, threads,
                 status, raised_early>>

\* ... and returns, at the end or before.
FunctionReturns ==
  /\ pc = "exec"
  /\ pc' = "check"
  /\ UNCHANGED <<unsent, pipe, closed, fd_open, to_read, msg, task,
                 readerVars, terminate, threads, got, status, raised_early>>

\* The answer is given at once: after what the function has raised nobody
\* reads the rest of the stream.
FunctionRaises ==
  /\ pc = "exec"
  /\ Answer("error")
  /\ raised_early' = IF eof THEN raised_early ELSE raised_early \cup {task}
  /\ UNCHANGED <<unsent, pipe, closed, fd_open, to_read, msg, readerVars,
                 terminate, threads, got>>

\* if _i_stream.read():
Check ==
  /\ pc = "check"
  /\ \E buf \in Bufs :
       /\ Read(buf)
       /\ \/ /\ buf = <<>>
             /\ Answer("ok")
          \/ /\ buf # <<>>
             /\ pc' = "drain"
             /\ UNCHANGED <<task, status>>
  /\ UNCHANGED <<unsent, closed, to_read, msg, terminate, threads, got,
                 raised_early>>

\* Faulty variant: the call ends well after all.
DrainForgives ==
  /\ pc = "drain"
  /\ \E buf \in Bufs :
       /\ Read(buf)
       /\ \/ buf = <<>> /\ Answer("ok")
          \/ buf # <<>> /\ UNCHANGED <<task, status, pc>>
  /\ UNCHANGED <<unsent, closed, to_read, msg, terminate, threads, got,
                 raised_early>>

\* Faulty variant: one more read and not all of them.
DrainOnce ==
  /\ pc = "drain"
  /\ \E buf \in Bufs : Read(buf)
  /\ Answer("error")
  /\ UNCHANGED <<unsent, closed, to_read, msg, terminate, threads, got,
                 raised_early>>

\* while _i_stream.read(): pass; then raise
Drain ==
  /\ pc = "drain"
  /\ \E buf \in Bufs :
       /\ Read(buf)
       /\ \/ buf = <<>> /\ Answer("error")
          \/ buf # <<>> /\ UNCHANGED <<task, status, pc>>
  /\ UNCHANGED <<unsent, closed, to_read, msg, terminate, threads, got,
                 raised_early>>

\* task_exec in a thread of its own.
ThreadEnds(c) ==
  /\ c \in threads
  /\ threads' = threads \ {c}
  /\ \E s \in {"ok", "error"} : status' = [status EXCEPT ![c] = s]
  /\ UNCHANGED <<unsent, pipe, closed, fd_open, pc, to_read, msg, task,
                 readerVars, terminate, got, raised_early>>

-----------------------------------------------------------------------------

Input ==
  \/ ReadSize \/ ReadBody \/ Dispatch
  \/ FunctionReads \/ FunctionReturns \/ FunctionRaises \/ Check \/ Drain

\* Everything was sent and answered, or nothing can be any more.
Over ==
  /\ unsent = {} \/ closed
  /\ threads = {}
  /\ pc = "dead" \/ (pc = "size" /\ pipe = <<>> /\ ~closed)

Gone == Over /\ UNCHANGED vars

Next ==
  \/ \E c \in Call : Send(c) \/ ThreadEnds(c)
  \/ Close
  \/ Input
  \/ Gone

(***************************************************************************)
(* The sender, the input thread and the function threads are scheduled;    *)
(* no connection has to end.                                               *)
(***************************************************************************)
Spec ==
  /\ Init /\ [][Next]_vars
  /\ WF_vars(Input)
  /\ \A c \in Call : WF_vars(Send(c)) /\ WF_vars(ThreadEnds(c))

-----------------------------------------------------------------------------
(* Properties.                                                             *)

(***************************************************************************)
(* A function gets the data of its own stream, in order and without gaps.  *)
(***************************************************************************)
OwnData == \A c \in Call : IsPrefix(got[c], Content(c))

(***************************************************************************)
(* A stream call that ended well on an open connection has read its whole  *)
(* stream: a function that returns early is reported ("Stream was not      *)
(* fully consumed").                                                       *)
(***************************************************************************)
WholeOrError ==
  \A c \in IsStream :
    status[c] = "ok" => got[c] = Content(c) \/ closed

(***************************************************************************)
(* The input thread keeps its place: as long as the connection is there it *)
(* finds the next message, also behind functions that returned early or    *)
(* raised at the end of their stream.  Only a function that raises before  *)
(* it has read its stream (file_writer does) takes it away.                *)
(***************************************************************************)
KeepsItsPlace == pc = "dead" => closed \/ raised_early # {}

(***************************************************************************)
(* Every call that was sent is answered as long as the connection is there *)
(* and no function has raised before the end of its stream.                *)
(***************************************************************************)
AnsweredUnlessRaised ==
  \A c \in Call :
    c \notin unsent ~> (status[c] # None \/ closed \/ raised_early # {})

=============================================================================

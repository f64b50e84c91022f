------------------------------- MODULE Writer -------------------------------
(***************************************************************************)
(* The writer task of a connection, core/writer.rs, shared by the IMAP and *)
(* the ManageSieve sessions.  A session and the tasks it spawns hold       *)
(* senders of a bounded channel of events; the task owns the half of the   *)
(* stream that is written to and hands it out for a TLS upgrade.           *)
(***************************************************************************)
EXTENDS Positions

CONSTANT Buffer    \* IPC_CHANNEL_BUFFER

ASSUME BufferAssumption == Buffer \in Nat \ {0}

VARIABLES
  chan,     \* the channel of events, oldest first
  stream,   \* what the writer task holds, or how it ended
  written   \* history: the requests whose answer was written

writerVars == <<chan, stream, written>>

(* kind is the variant of writer::Event.  tag is the request that the bytes *)
(* answer, 0 when they answer none; by tells who sent the event.            *)
Event(kind, tag, by) == [kind |-> kind, tag |-> tag, by |-> by]
Bytes(tag, by) == Event("bytes", tag, by)

EventKinds == {"bytes", "stream", "tls", "upgrade"}
Streams == {"none", "plain", "tls", "lent", "ended", "panicked"}

WriterTypeOK ==
  /\ \A i \in DOMAIN chan : chan[i].kind \in EventKinds
  /\ Len(chan) <= Buffer
  /\ stream \in Streams
  /\ written \subseteq Nat

WriterInit == chan = <<>> /\ stream = "none" /\ written = {}

(* The receiver of the channel is dropped when the task ends. *)
Hearing == stream \notin {"ended", "panicked"}

(* A send that returns Ok; it waits while the channel is full. *)
Send(events) ==
  /\ Hearing
  /\ Len(chan) + Len(events) <= Buffer
  /\ chan' = chan \o events

-----------------------------------------------------------------------------
(* The variant that the outer loop matches next. *)
Took(event) == CASE event.kind = "stream" -> "plain"
                 [] event.kind = "tls"    -> "tls"
                 [] OTHER                 -> "panicked"

(* The first event, and the one after an upgrade, is the stream. *)
WriterTakes ==
  /\ stream \in {"none", "lent"}
  /\ chan # <<>>
  /\ stream' = Took(Head(chan))
  /\ chan' = Tail(chan)
  /\ UNCHANGED written

WriterWrites ==
  /\ stream \in {"plain", "tls"}
  /\ chan # <<>>
  /\ Head(chan).kind = "bytes"
  /\ written' = written \cup ({Head(chan).tag} \ {0})
  /\ chan' = Tail(chan)
  /\ UNCHANGED stream

(* write_all fails: the peer is gone. *)
WriterFails ==
  /\ stream \in {"plain", "tls"}
  /\ chan # <<>>
  /\ Head(chan).kind = "bytes"
  /\ stream' = "ended"
  /\ chan' = <<>>
  /\ UNCHANGED written

(* Any event but bytes.  Only a plain stream can be handed out. *)
WriterSwitches ==
  /\ stream \in {"plain", "tls"}
  /\ chan # <<>>
  /\ Head(chan).kind # "bytes"
  /\ stream' = IF stream = "plain" /\ Head(chan).kind = "upgrade" THEN "lent" ELSE Took(Head(chan))
  /\ chan' = Tail(chan)
  /\ UNCHANGED written

(* recv returns None: the last sender is gone. *)
WriterEnds(senders) ==
  /\ Hearing
  /\ chan = <<>>
  /\ ~senders
  /\ stream' = "ended"
  /\ UNCHANGED <<chan, written>>

WriterStep(senders) ==
  \/ WriterTakes
  \/ WriterWrites
  \/ WriterSwitches
  \/ WriterEnds(senders)
=============================================================================

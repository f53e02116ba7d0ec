---------------------------- MODULE SerialAdapter ----------------------------
(***************************************************************************)
(* The worker of the BravePI adapter (adapters/bravepi-mainboard/src/task): *)
(* a reader thread that opens the serial port, reads it and reconnects     *)
(* with a bounded number of retries, and decoded_event_loop, which turns   *)
(* its bytes into events.  A chunk of bytes completes one frame or none,   *)
(* and what it decodes to is chosen when it is decoded.  The downlink path *)
(* is left out: the host sends the loop no device command, so the write    *)
(* queue of the reader stays empty.                                        *)
(***************************************************************************)
EXTENDS InputAdapters

CONSTANTS
    BytesCap,      \* capacity of the bytes channel (64)
    MaxRetries     \* MAX_RETRIES of serial_source (10)

ASSUME SerialAssumption == BytesCap \in Nat \ {0} /\ MaxRetries \in Nat

VARIABLES
    reader,        \* instance -> the reader thread
    retries,       \* instance -> its retry_count
    bytes          \* instance -> the bytes channel: "data", or the TransportError

serialVars == <<reader, retries, bytes>>

ReaderStates == {"open", "retry", "backoff", "read", "send", "exhausted", "done"}

SerialTypeOK ==
    /\ reader \in [Serial -> ReaderStates]
    /\ retries \in [Serial -> 0 .. MaxRetries]
    /\ \A a \in Serial : bytes[a] \in Seq({"data", "failed"}) /\ Len(bytes[a]) <= BytesCap

SerialInit ==
    /\ reader = [a \in Serial |-> "done"]
    /\ retries = [a \in Serial |-> 0]
    /\ bytes = [a \in Serial |-> <<>>]

\* RuntimeWorker::start: the reader thread is spawned and opens the port itself.
StartSerial(a) ==
    /\ StartTasks(a, "select")
    /\ reader' = [reader EXCEPT ![a] = "open"]
    /\ retries' = [retries EXCEPT ![a] = 0]
    /\ bytes' = [bytes EXCEPT ![a] = <<>>]

----------------------------------------------------------------------------
(* The reader thread                                                       *)

\* bytes_rx belongs to decoded_event_loop.
BytesClosed(a) == loop[a] = "done"

ReaderTo(a, pc) == reader' = [reader EXCEPT ![a] = pc]

Reports(a, iface) ==
    /\ activity' = [activity EXCEPT ![a].iface = iface]
    /\ UNCHANGED <<stop, completion, ingest>>

\* SerialTransport::open, with its report to the host.
OpenPort(a) ==
    /\ \/ /\ Reports(a, "open")
          /\ ReaderTo(a, "read")
          /\ retries' = [retries EXCEPT ![a] = 0]
       \/ /\ Reports(a, "failed")
          /\ ReaderTo(a, "retry")
          /\ UNCHANGED retries
    /\ UNCHANGED bytes

\* The first attempt of connect_initial.
ReaderConnect(a) ==
    /\ reader[a] = "open"
    /\ OpenPort(a)

\* The head of try_reconnect's loop.
ReaderRetry(a) ==
    /\ reader[a] = "retry"
    /\ IF retries[a] + 1 > MaxRetries THEN ReaderTo(a, "exhausted") /\ UNCHANGED retries
       ELSE IF BytesClosed(a) THEN ReaderTo(a, "done") /\ UNCHANGED retries
       ELSE ReaderTo(a, "backoff") /\ retries' = [retries EXCEPT ![a] = @ + 1]
    /\ UNCHANGED <<bytes, hostApi>>

\* The backoff ends with another attempt, or early when the channel is closed.
ReaderReopen(a) ==
    /\ reader[a] = "backoff"
    /\ \/ /\ BytesClosed(a)
          /\ ReaderTo(a, "done")
          /\ UNCHANGED <<retries, bytes, hostApi>>
       \/ OpenPort(a)

\* The loop of serial_reader_thread: closed, bytes read, or a read error.
ReaderRead(a) ==
    /\ reader[a] = "read"
    /\ \/ BytesClosed(a) /\ ReaderTo(a, "done")
       \/ ReaderTo(a, "send")
       \/ ReaderTo(a, "retry")
    /\ UNCHANGED <<retries, bytes, hostApi>>

\* blocking_send of a chunk, or of the TransportError of exhausted retries.
ReaderSend(a) ==
    /\ reader[a] \in {"send", "exhausted"}
    /\ \/ /\ BytesClosed(a)
          /\ ReaderTo(a, "done")
          /\ UNCHANGED bytes
       \/ /\ ~BytesClosed(a)
          /\ Len(bytes[a]) < BytesCap
          /\ bytes' = [bytes EXCEPT ![a] = Append(@, IF reader[a] = "send" THEN "data" ELSE "failed")]
          /\ ReaderTo(a, IF reader[a] = "send" THEN "read" ELSE "done")
    /\ UNCHANGED <<retries, hostApi>>

Reader(a) ==
    /\ \/ ReaderConnect(a) \/ ReaderRetry(a) \/ ReaderReopen(a)
       \/ ReaderRead(a) \/ ReaderSend(a)
    /\ UNCHANGED <<comp, outcome, loopVars>>

----------------------------------------------------------------------------
(* decoded_event_loop                                                      *)

\* A sensor frame is an observation, after the discovery of a new device; a
\* config frame of a discovered device and an undecodable frame are one other
\* event; an incomplete or unknown frame, or one of no known device, is none.
FrameEvents == {<<"observation">>, <<"other", "observation">>, <<"other">>, <<>>}

LoopBytes(a) ==
    /\ loop[a] = "select"
    /\ bytes[a] # <<>>
    /\ bytes' = [bytes EXCEPT ![a] = Tail(@)]
    /\ \/ Head(bytes[a]) = "failed" /\ Sends(a, <<"other">>, TRUE)
       \/ Head(bytes[a]) = "data" /\ \E es \in FrameEvents : Sends(a, es, FALSE)
    /\ UNCHANGED <<hostApi, comp, outcome, events, command, reader, retries>>

\* The reader thread is gone without a word.
LoopReaderGone(a) ==
    /\ loop[a] = "select"
    /\ bytes[a] = <<>>
    /\ reader[a] = "done"
    /\ Sends(a, <<"other">>, TRUE)
    /\ UNCHANGED <<hostApi, comp, outcome, events, command, serialVars>>

DecodedEventLoop(a) ==
    \/ LoopBytes(a) \/ LoopReaderGone(a)
    \/ Emit(a) /\ UNCHANGED serialVars
=============================================================================

-------------------------------- MODULE Wire --------------------------------
(***************************************************************************)
(* The WebSocket connections between the client's ECHPool and the server,  *)
(* and the text/binary messages of the TCP half of the tunnel protocol.    *)
(*                                                                         *)
(* A pool with NumChannels channels dials a WebSocket per channel and      *)
(* dials again when reading fails, so a connection is named by a pair      *)
(* <<channel, epoch>>: epoch e is the e-th connection of that channel.     *)
(* Both ends may hold a pointer to a connection long after it broke.       *)
(* A connection is two FIFO streams: it keeps order and loses nothing      *)
(* while it is open; when it breaks, each direction loses an arbitrary     *)
(* suffix of what was not yet read, and everything written later.          *)
(***************************************************************************)
EXTENDS Integers, Sequences

CONSTANTS Sessions,      \* connIDs (uuid.New: never reused)
          NumChannels,   \* connectionNum, flag -n
          MaxDials       \* bound: connections ever dialled per channel

ASSUME NumChannelsAssumption == NumChannels \in Nat \ {0}
ASSUME MaxDialsAssumption == MaxDials \in Nat \ {0}

Channels == 0 .. NumChannels - 1
Epochs == 1 .. MaxDials
Sockets == Channels \X Epochs

\* The messages of TCP sessions.  TCP carries the first frame (0: empty) and
\* DATA the number of the unit of payload it carries; the others carry 0.
Types == {"CLAIM", "CLAIM_ACK", "TCP", "CONNECTED", "DATA", "CLOSE"}
Messages == [type : Types, sess : Sessions, data : Nat]
Msg(t, s, d) == [type |-> t, sess |-> s, data |-> d]

VARIABLES
  link,      \* link[w]: "none" not dialled yet, "open", "broken" (no longer
             \* delivers), "gone" (the server's handler has also returned)
  toServer,  \* toServer[w]: what the client wrote and the server has not read
  toClient   \* toClient[w]: what the server wrote and the client has not read

wireVars == <<link, toServer, toClient>>

LinkStates == {"none", "open", "broken", "gone"}

WireTypeOK ==
  /\ link \in [Sockets -> LinkStates]
  /\ toServer \in [Sockets -> Seq(Messages)]
  /\ toClient \in [Sockets -> Seq(Messages)]

WireInit ==
  /\ link = [w \in Sockets |-> "none"]
  /\ toServer = [w \in Sockets |-> << >>]
  /\ toClient = [w \in Sockets |-> << >>]

\* WriteMessage returns nil (ok) or an error.  It cannot fail on an open
\* connection; on a broken one it may still return nil (the socket buffer took
\* the bytes) although nobody will read the message.
MayReturn(w, ok) == ok \/ link[w] # "open"
After(queue, w, m, ok) ==
  IF ok /\ link[w] = "open" THEN [queue EXCEPT ![w] = Append(@, m)] ELSE queue

ClientWrite(w, m, ok) ==
  /\ MayReturn(w, ok)
  /\ toServer' = After(toServer, w, m, ok)
  /\ UNCHANGED <<link, toClient>>

\* The connection w fails.  Each direction keeps the prefix that had already
\* reached the other host; readers get that prefix and then a read error.
Break(w) ==
  /\ link[w] = "open"
  /\ link' = [link EXCEPT ![w] = "broken"]
  /\ \E i \in 0 .. Len(toServer[w]), j \in 0 .. Len(toClient[w]) :
       /\ toServer' = [toServer EXCEPT ![w] = SubSeq(@, 1, i)]
       /\ toClient' = [toClient EXCEPT ![w] = SubSeq(@, 1, j)]
=============================================================================

---------------------------- MODULE LineFraming ----------------------------
(***************************************************************************)
(* One direction of a connection, byte by byte: send_line writes a line    *)
(* and a newline in as many pieces as send() makes of them; the reader     *)
(* takes what recv() gives it, keeps it in a buffer and handles the lines  *)
(* it finds there.  The reader is read_client of the server, or _consume   *)
(* of a dashboard, which decodes every chunk for itself.                   *)
(***************************************************************************)
EXTENDS Naturals, FiniteSets, SequencesExt

CONSTANTS
  Reader,       \* the readers considered: "server", "dashboard"
  Payload,      \* the lines sent, as sequences of bytes
  MaxChunk,     \* the size of the buffer given to recv()
  Capacity,     \* bytes the network holds
  MaxLines

NL == "newline"

(* A character of two bytes is the byte "lead" and the byte "cont".        *)
Byte == {"ascii", "lead", "cont"}

ASSUME FramingAssumption ==
  /\ Reader \subseteq {"server", "dashboard"}
  /\ Payload \subseteq Seq(Byte)
  /\ {MaxChunk, Capacity} \subseteq Nat \ {0} /\ MaxLines \in Nat

VARIABLES
  reader,      \* who reads; never changes
  outgoing,    \* what send_line has still to write
  stream,      \* bytes in the network
  buffer,      \* ClientConnection::buffer, or buffer of _consume
  handled,     \* the lines given to handle_line or _handle_event
  pc,          \* the reader waits in recv(), splits its buffer or has failed
  sent         \* lines begun

vars == <<reader, outgoing, stream, buffer, handled, pc, sent>>

Init ==
  /\ reader \in Reader
  /\ outgoing = << >> /\ stream = << >> /\ buffer = << >> /\ handled = << >>
  /\ pc = "recv"
  /\ sent = 0

-----------------------------------------------------------------------------
(* send_line: the line and its newline, then send() until all is written.  *)

send_line ==
  /\ outgoing = << >> /\ sent < MaxLines
  /\ \E line \in Payload : outgoing' = Append(line, NL)
  /\ sent' = sent + 1
  /\ UNCHANGED <<reader, stream, buffer, handled, pc>>

(* Mutant: send() is taken to have written everything.                     *)
all_written(n) == << >>

not_written(n) == SubSeq(outgoing, n + 1, Len(outgoing))

send ==
  /\ \E n \in 1..Len(outgoing) :
       /\ Len(stream) + n <= Capacity
       /\ stream' = stream \o SubSeq(outgoing, 1, n)
       /\ outgoing' = not_written(n)
  /\ UNCHANGED <<reader, buffer, handled, pc, sent>>

-----------------------------------------------------------------------------
(* The reader.                                                             *)

(* chunk.decode("utf-8") succeeds on whole characters only.                *)
Decodable(chunk) ==
  \A i \in DOMAIN chunk :
    /\ chunk[i] = "lead" => i < Len(chunk) /\ chunk[i + 1] = "cont"
    /\ chunk[i] = "cont" => i > 1 /\ chunk[i - 1] = "lead"

recv ==
  /\ pc = "recv"
  /\ \E n \in 1..Len(stream) :
       LET chunk == SubSeq(stream, 1, n)
       IN  /\ n <= MaxChunk
           /\ stream' = SubSeq(stream, n + 1, Len(stream))
           /\ IF reader = "dashboard" /\ ~Decodable(chunk)
              THEN pc' = "failed" /\ UNCHANGED buffer
              ELSE pc' = "split" /\ buffer' = buffer \o chunk
  /\ UNCHANGED <<reader, outgoing, handled, sent>>

(* A line of blanks is skipped: an empty one stands for them.              *)
NotBlank(line) == line # << >>

(* Mutant: one line for each chunk.                                        *)
one_line == "recv"

after_line == "split"

(* Erasing or splitting off the first line and its newline, handling it.   *)
Split ==
  /\ pc = "split" /\ Contains(buffer, NL)
  /\ LET newline == SelectInSeq(buffer, LAMBDA byte : byte = NL)
         line == SubSeq(buffer, 1, newline - 1)
     IN  /\ buffer' = SubSeq(buffer, newline + 1, Len(buffer))
         /\ handled' = IF NotBlank(line) THEN Append(handled, line) ELSE handled
  /\ pc' = after_line
  /\ UNCHANGED <<reader, outgoing, stream, sent>>

(* Mutant: what is left of the chunk is forgotten.                         *)
cleared == << >>

unfinished == buffer

SplitDone ==
  /\ pc = "split" /\ ~Contains(buffer, NL)
  /\ buffer' = unfinished
  /\ pc' = "recv"
  /\ UNCHANGED <<reader, outgoing, stream, handled, sent>>

Next == send_line \/ send \/ recv \/ Split \/ SplitDone

Spec == Init /\ [][Next]_vars

(* send() writes when there is room and the reader goes on.                *)
FairSpec == Spec /\ WF_vars(send) /\ WF_vars(recv \/ Split \/ SplitDone)

-----------------------------------------------------------------------------
(* A line that is not blank ends at a newline with another byte before it, *)
(* and begins behind the newline before that, or with the first byte.      *)
Ends(bytes) == {i \in 2..Len(bytes) : bytes[i] = NL /\ bytes[i - 1] # NL}

StartsBehind(bytes, b, e) ==
  (b = 0 \/ bytes[b] = NL) /\ \A i \in b + 1..e - 1 : bytes[i] # NL

LineTo(bytes, e) ==
  LET b == CHOOSE b \in 0..e - 1 : StartsBehind(bytes, b, e)
  IN  SubSeq(bytes, b + 1, e - 1)

(* How many of a set of positions come up to the position e.               *)
Rank(S, e) == Cardinality({i \in S : i <= e})

(* The complete lines in a sequence of bytes, without the blank ones.      *)
LinesIn(bytes) ==
  [k \in 1..Cardinality(Ends(bytes)) |->
     LineTo(bytes, CHOOSE e \in Ends(bytes) : Rank(Ends(bytes), e) = k)]

(* After a failure the chunk at hand and all that follows is dropped.      *)
Channel == INSTANCE LineChannel
             WITH Line <- Payload \ {<< >>},
                  queue <- IF pc = "failed" THEN << >> ELSE LinesIn(buffer \o stream),
                  broken <- pc = "failed"

(* However send() and recv() cut the bytes, the reader handles lines that  *)
(* were sent, whole, in order and none twice or left out; the dashboard    *)
(* may stop between two lines, the server never does.  This is what        *)
(* MonitorServer, where lines arrive whole, and DashboardConnector take    *)
(* for granted.                                                            *)
ImplementsLineChannel == Channel!Safe

(* And no line that arrived stays in the buffer or in the network, however *)
(* the chunks end, unless the dashboard gave the connection up.            *)
HandlesEveryLine == Channel!Fairness
=============================================================================

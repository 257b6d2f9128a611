----------------------------- MODULE LineFraming -----------------------------
(***************************************************************************)
(* The bytes of one connection: the daemon's _handle_connection and        *)
(* _handle_line (daemon/server.py) on one end, and on the other a program  *)
(* that writes lines and reads the responses as _read_response_line        *)
(* (client.py) does.  recv() returns any piece of what has arrived; either *)
(* end may have written half a line or several when it does.               *)
(***************************************************************************)
EXTENDS Naturals, Sequences, FiniteSets

CONSTANTS
    Bytes,
    Inputs,      \* what the program may write, a set of byte sequences
    Requests,    \* the lines that hold a JSON object with a method
    Garbage,     \* bytes that cannot be decoded as text
    Unloadable,  \* text that makes json.loads() raise anything but JSONDecodeError
    ChunkSize    \* the most recv() returns at once (4096)

NL == "\n"
Space == " "

\* json.dumps() writes no newline.
ASSUME LineAssumption ==
    /\ ChunkSize \in Nat \ {0}
    /\ {NL, Space, "!", "="} \subseteq Bytes
    /\ Inputs \cup Requests \cup Unloadable \subseteq Seq(Bytes)
    /\ Requests \cap Unloadable = {}
    /\ \A r \in Requests : \A i \in DOMAIN r : r[i] \notin {NL} \cup Garbage

VARIABLES
    input,      \* what the program writes in the end
    written,    \* how many bytes of it are written
    open,       \* its end of the connection is open
    toServer,   \* bytes on the way
    toClient,
    thread,     \* where _handle_connection stands
    buffer,     \* its buffer
    clientBuffer,
    handled,    \* history: the lines given to _handle_line
    output,     \* history: the bytes written by the daemon
    got         \* the response lines the program has read

framingVars == <<input, written, open, toServer, toClient, thread, buffer, clientBuffer,
                 handled, output, got>>

-----------------------------------------------------------------------------
(* Lines.                                                                   *)

\* bytes.split(b"\n", 1) of bytes that hold a newline.
HasLine(b) == \E i \in DOMAIN b : b[i] = NL

\* Wrong on purpose: rsplit() for split().
LineEnd_Last(b) == CHOOSE i \in DOMAIN b : b[i] = NL /\ \A j \in (i + 1)..Len(b) : b[j] # NL

LineEnd(b) == CHOOSE i \in DOMAIN b : b[i] = NL /\ \A j \in 1..(i - 1) : b[j] # NL

FirstLine(b) == SubSeq(b, 1, LineEnd(b) - 1)

\* Wrong on purpose: one line per piece, whatever follows is dropped.
Rest_Dropped(b) == <<>>

Rest(b) == SubSeq(b, LineEnd(b) + 1, Len(b))

\* Wrong on purpose: a line of spaces counts.
Blank_Never(line) == line = <<>>

\* not line.strip()
Blank(line) == \A i \in DOMAIN line : line[i] = Space

\* json.loads() returns or raises JSONDecodeError, which is all that is caught.
\* Of other text it raises ValueError (a number of more than 4300 digits) or
\* RecursionError (arrays or objects nested too deep), of no text
\* UnicodeDecodeError.
Loads(line) == line \notin Unloadable /\ \A i \in DOMAIN line : line[i] \notin Garbage

\* The response to a line: an error, or to a request a result.
Error == <<"!">>

Result(line) == <<"=">> \o line

Responses(line) == {Error} \cup (IF line \in Requests THEN {Result(line)} ELSE {})

-----------------------------------------------------------------------------
(* The lines of a whole stream, by definition.                              *)

\* A line of b may begin after its first k bytes.
LineBreak(b, k) == k = 0 \/ b[k] = NL

\* The member of a set that has one.
The(S) == CHOOSE x \in S : TRUE

LineStart(b, i) ==
    The({s \in 1..i : LineBreak(b, s - 1) /\ \A j \in s..(i - 1) : b[j] # NL})

\* The line that ends before the newline at i.
LineAt(b, i) == SubSeq(b, LineStart(b, i), i - 1)

\* The one of a set of numbers that n of them do not exceed.
Nth(S, n) == {i \in S : Cardinality({j \in S : j <= i}) = n}

\* The lines that end at a given set of newlines, from the first to the last.
LinesAt(b, ends) ==
    [n \in 1..Cardinality(ends) |-> The({LineAt(b, i) : i \in Nth(ends, n)})]

Ends(b) == {i \in DOMAIN b : b[i] = NL}

LinesOf(b) == LinesAt(b, Ends(b))

NotBlank(line) == \E i \in DOMAIN line : line[i] # Space

\* An answer is due for any line but a blank one.
Asks(b) == {i \in Ends(b) : NotBlank(LineAt(b, i))}

AskedIn(b) == LinesAt(b, Asks(b))

\* What the daemon has answered.
Replied == LinesOf(output)

\* What _handle_line is given is one line, and every line the daemon writes is
\* the response to one, in the same order (server.py:97-101).
FramingTypeOK ==
    /\ input \in Inputs
    /\ written \in 0..Len(input)
    /\ open \in BOOLEAN
    /\ thread \in {"recv", "split", "ended"}
    /\ {toServer, toClient, buffer, clientBuffer, output} \subseteq Seq(Bytes)
    /\ \A i \in DOMAIN handled : ~HasLine(handled[i])
    /\ Len(Replied) <= Len(handled)
    /\ \A i \in DOMAIN Replied : Replied[i] \in Responses(handled[i])

FramingInit ==
    /\ input \in Inputs
    /\ written = 0
    /\ open = TRUE
    /\ toServer = <<>>
    /\ toClient = <<>>
    /\ thread = "recv"
    /\ buffer = <<>>
    /\ clientBuffer = <<>>
    /\ handled = <<>>
    /\ output = <<>>
    /\ got = <<>>

\* recv() moves a piece from the stream into the buffer.
Piece(stream, n) == n \in 1..ChunkSize /\ n <= Len(stream)

-----------------------------------------------------------------------------
(* The program.                                                             *)

Write ==
    /\ open
    /\ written < Len(input)
    /\ thread # "ended"
    /\ written' = written + 1
    /\ toServer' = Append(toServer, input[written + 1])
    /\ UNCHANGED <<input, open, toClient, thread, buffer, clientBuffer, handled, output, got>>

ClientRecv(n) ==
    /\ open
    /\ ~HasLine(clientBuffer)
    /\ Piece(toClient, n)
    /\ clientBuffer' = clientBuffer \o SubSeq(toClient, 1, n)
    /\ toClient' = SubSeq(toClient, n + 1, Len(toClient))
    /\ UNCHANGED <<input, written, open, toServer, thread, buffer, handled, output, got>>

ClientTakesLine ==
    /\ open
    /\ HasLine(clientBuffer)
    /\ got' = Append(got, FirstLine(clientBuffer))
    /\ clientBuffer' = Rest(clientBuffer)
    /\ UNCHANGED <<input, written, open, toServer, toClient, thread, buffer, handled, output>>

\* The program gives up, perhaps in the middle of a line, or finds the other end
\* closed; what it has not read is lost.
Close ==
    /\ open
    /\ open' = FALSE
    /\ toClient' = <<>>
    /\ clientBuffer' = <<>>
    /\ UNCHANGED <<input, written, toServer, thread, buffer, handled, output, got>>

-----------------------------------------------------------------------------
(* The connection's thread.                                                 *)

Recv(n) ==
    /\ thread = "recv"
    /\ Piece(toServer, n)
    /\ buffer' = buffer \o SubSeq(toServer, 1, n)
    /\ toServer' = SubSeq(toServer, n + 1, Len(toServer))
    /\ thread' = "split"
    /\ UNCHANGED <<input, written, open, toClient, clientBuffer, handled, output, got>>

\* Wrong on purpose: what is left in the buffer is taken for a line.
RecvNothing_ServesRest ==
    /\ thread = "recv"
    /\ toServer = <<>>
    /\ ~open
    /\ thread' = "ended"
    /\ handled' = IF buffer = <<>> THEN handled ELSE Append(handled, buffer)
    /\ UNCHANGED <<input, written, open, toServer, toClient, buffer, clientBuffer, output, got>>

\* recv() returns nothing: an unfinished line is dropped.
RecvNothing ==
    /\ thread = "recv"
    /\ toServer = <<>>
    /\ ~open
    /\ thread' = "ended"
    /\ UNCHANGED <<input, written, open, toServer, toClient, buffer, clientBuffer, handled,
                   output, got>>

SkipBlank ==
    /\ thread = "split"
    /\ HasLine(buffer)
    /\ Blank(FirstLine(buffer))
    /\ buffer' = Rest(buffer)
    /\ UNCHANGED <<input, written, open, toServer, toClient, thread, clientBuffer, handled,
                   output, got>>

\* _handle_line: no JSON, not an object, no method, dispatch_fn raises, or its
\* result cannot be serialised, all give an error; and the response is written
\* unless the program has gone, which ends the thread.
HandleLine ==
    /\ thread = "split"
    /\ HasLine(buffer)
    /\ LET line == FirstLine(buffer)
       IN  /\ ~Blank(line)
           /\ Loads(line)
           /\ handled' = Append(handled, line)
           /\ \E response \in Responses(line) :
                 IF open
                 THEN /\ output' = output \o (response \o <<NL>>)
                      /\ toClient' = toClient \o (response \o <<NL>>)
                      /\ UNCHANGED thread
                 ELSE thread' = "ended" /\ UNCHANGED <<output, toClient>>
    /\ buffer' = Rest(buffer)
    /\ UNCHANGED <<input, written, open, toServer, clientBuffer, got>>

\* json.loads() raises what nobody catches: no response, and the rest is lost.
ThreadDies ==
    /\ thread = "split"
    /\ HasLine(buffer)
    /\ ~Blank(FirstLine(buffer))
    /\ ~Loads(FirstLine(buffer))
    /\ thread' = "ended"
    /\ UNCHANGED <<input, written, open, toServer, toClient, buffer, clientBuffer, handled,
                   output, got>>

NoMoreLines ==
    /\ thread = "split"
    /\ ~HasLine(buffer)
    /\ thread' = "recv"
    /\ UNCHANGED <<input, written, open, toServer, toClient, buffer, clientBuffer, handled,
                   output, got>>

-----------------------------------------------------------------------------
ClientReads == ClientTakesLine \/ \E n \in 1..ChunkSize : ClientRecv(n)

ThreadStep ==
    \/ \E n \in 1..ChunkSize : Recv(n)
    \/ RecvNothing
    \/ SkipBlank
    \/ HandleLine
    \/ ThreadDies
    \/ NoMoreLines

FramingNext == Write \/ ClientReads \/ Close \/ ThreadStep

FramingSpec == FramingInit /\ [][FramingNext]_framingVars

\* Both ends keep running; nobody has to close the connection.
FramingFairness ==
    /\ WF_framingVars(Write)
    /\ WF_framingVars(ClientReads)
    /\ WF_framingVars(ThreadStep)

FramingFairSpec == FramingSpec /\ FramingFairness

-----------------------------------------------------------------------------
(* Properties.                                                              *)

Asked == AskedIn(SubSeq(input, 1, written))

PossibleLines == UNION {{LineAt(b, i) : i \in Asks(b)} : b \in Inputs}

\* One direction of a HalRpc connection, whole lines in a queue, is what the
\* bytes come to.
Lines == INSTANCE LineQueue WITH
    Line <- PossibleLines, sent <- Asked, received <- handled

\* However the bytes are cut into pieces, _handle_line gets the lines that were
\* written, whole, each once, in their order and no other: not a blank one, and
\* not the beginning of one whose writer has gone (server.py:91-100).
RequestsInOrder == Lines!Spec

\* Requests and responses carry no number: the n-th response the program reads
\* must be the one to the n-th line that asked for one, and stay so over blank
\* lines, malformed ones and several lines in one piece (server.py:96-101,
\* client.py:395-400).
PairedByOrder ==
    /\ Len(got) <= Len(Asked)
    /\ \A n \in DOMAIN got : got[n] \in Responses(Asked[n])

\* Why: each reader has taken the lines up to some newline of its stream, and has
\* all that follows before it.
FramingInv ==
    /\ FramingTypeOK
    /\ \E k \in 0..written :
          /\ LineBreak(input, k)
          /\ handled = AskedIn(SubSeq(input, 1, k))
          /\ buffer \o toServer = SubSeq(input, k + 1, written)
    /\ LineBreak(output, Len(output))
    /\ thread # "ended" => Len(Replied) = Len(handled)
    /\ \E k \in 0..Len(output) :
          /\ LineBreak(output, k)
          /\ got = LinesOf(SubSeq(output, 1, k))
          /\ open => clientBuffer \o toClient = SubSeq(output, k + 1, Len(output))

\* The lines before the first one that ends the thread.
Answerable(b) == {i \in Asks(b) : \A j \in Asks(b) : j <= i => Loads(LineAt(b, j))}

\* No line is left in a buffer: while the program stays, it comes to read a
\* response to everything it asks before a line on which the thread dies
\* (server.py:105), which must not take earlier answers with it, and no more.
EveryLineAnswered == <>[](~open \/ Len(got) = Cardinality(Answerable(input)))

=============================================================================

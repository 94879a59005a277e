------------------------------ MODULE Exchange ------------------------------
(***************************************************************************)
(* The bytes of a call (pkg/contract): pooled Request and Response objects *)
(* whose buffers are used again, the frames they are written to and read   *)
(* from one connection as, and the request contexts of the server.         *)
(*                                                                         *)
(* A slice is its buffer, as long as its capacity, and a length: resetting *)
(* one leaves its bytes.  A frame is the number fastrpc gives the request, *)
(* the code or status byte, four bytes of size and the value.  fastrpc and *)
(* TCP are external: any number of requests wait on the connection, an     *)
(* answer is read into the response of the request with its number or,     *)
(* when nobody waits for it any more, into one of its own; an error of a   *)
(* frame ends the connection, of which any part may have arrived.          *)
(***************************************************************************)
EXTENDS Naturals, Sequences, FiniteSets, SequencesExt

CONSTANTS
  Callers,          \* goroutines in doUnary
  Objects,          \* the Requests and the Responses of the two pools
  Ctxs,             \* the RequestCtxs of the server
  Messages,         \* what callers send: a code and a value
  Answers,          \* [Messages -> what the handler answers]
  MaxBytesSize,     \* maxBytesSize
  MaxCalls          \* bound

Byte == 0..255
ASSUME MessagesAssumption == Messages \subseteq [head : Byte, value : Seq(Byte)]
ASSUME AnswersAssumption == Answers \in [Messages -> [head : Byte, value : Seq(Byte)]]
ASSUME SizesAssumption ==
  /\ MaxBytesSize \in Nat \ {0} /\ MaxBytesSize <= 1024 * 1024
  /\ MaxCalls \in 1..255
ASSUME ObjectsAssumption == Objects # {}

VARIABLES
  requests, responses,           \* [Objects -> the object]
  freeRequests, freeResponses,   \* requestPool and responsePool
  call,             \* [Callers -> the call under way]
  up, down,         \* bytes under way to the server and to the client
  connected,        \* the connection is open: more may be written to it
  ctx,              \* [Ctxs -> RequestCtx]
  asked,            \* history: what was asked, by number of the request
  served,           \* history: the handler was given m as request n, <<n, m>>
  result            \* [Callers -> what the last call returned]

pools == <<requests, responses, freeRequests, freeResponses>>
stream == <<up, down, connected>>
vars == <<pools, call, stream, ctx, asked, served, result>>

TLV == [head : Byte, buf : Seq(Byte), len : Nat]
Fits(o) == o.len <= Len(o.buf)
Value(o) == SubSeq(o.buf, 1, o.len)
New == [head |-> 0, buf |-> <<>>, len |-> 0]
NoResult == [ok |-> FALSE, n |-> 0, head |-> 0, value |-> <<>>]

TypeOK ==
  /\ requests \in [Objects -> TLV] /\ responses \in [Objects -> TLV]
  /\ \A o \in Objects : Fits(requests[o]) /\ Fits(responses[o])
  /\ freeRequests \subseteq Objects /\ freeResponses \subseteq Objects
  /\ call \in [Callers ->
       [pc : {"idle", "ready", "waiting", "answered", "failed"},
        n : 0..MaxCalls, req : Objects, resp : Objects]]
  /\ up \in Seq(Byte) /\ down \in Seq(Byte) /\ connected \in BOOLEAN
  /\ ctx \in [Ctxs ->
       [phase : {"idle", "serve", "done"}, n : Byte, live : BOOLEAN,
        request : TLV, response : TLV]]
  /\ \A k \in Ctxs : Fits(ctx[k].request) /\ Fits(ctx[k].response)
  /\ asked \in Seq(Messages) /\ Len(asked) <= MaxCalls
  /\ served \in Seq(Byte \X [head : Byte, value : Seq(Byte)])
  /\ result \in [Callers ->
       [ok : BOOLEAN, n : 0..MaxCalls, head : Byte, value : Seq(Byte)]]

Init ==
  /\ requests = [o \in Objects |-> New] /\ responses = [o \in Objects |-> New]
  /\ freeRequests = Objects /\ freeResponses = Objects
  /\ call = [p \in Callers |->
       [pc |-> "idle", n |-> 0,
        req |-> CHOOSE o \in Objects : TRUE, resp |-> CHOOSE o \in Objects : TRUE]]
  /\ up = <<>> /\ down = <<>> /\ connected = TRUE
  /\ ctx = [k \in Ctxs |->
       [phase |-> "idle", n |-> 0, live |-> FALSE, request |-> New, response |-> New]]
  /\ asked = <<>> /\ served = <<>> /\ result = [p \in Callers |-> NoResult]

-----------------------------------------------------------------------------
(* Slices, values and frames.                                              *)

(* What bytes overwrite of a buffer, which grows when they do not fit.     *)
Over(buf, bytes) == bytes \o SubSeq(buf, Len(bytes) + 1, Len(buf))

Reset(o) == [o EXCEPT !.head = 0, !.len = 0]

(* Of a Response: its status is OK then.                                   *)
ResetResponse(o) == [o EXCEPT !.head = 1, !.len = 0]

AppendValue(o, p) ==
  [o EXCEPT !.buf = Over(@, Value(o) \o p), !.len = @ + Len(p)]

AppendUint32(n) == <<n % 256, (n \div 256) % 256, (n \div 65536) % 256, n \div 16777216>>

Bytes2Uint32(b) == b[1] + 256 * b[2] + 65536 * b[3] + 16777216 * b[4]

WriteBytes(value) ==
  IF Len(value) > MaxBytesSize THEN [bytes |-> <<>>, err |-> TRUE]
  ELSE [bytes |-> AppendUint32(Len(value)) \o value, err |-> FALSE]

(* What is written of a frame: the number and the byte go first, and stay  *)
(* when the value is refused.                                              *)
Frame(n, o) ==
  LET written == WriteBytes(Value(o)) IN
  [written EXCEPT !.bytes = <<n, o.head>> \o @]

Refused(o) == [o |-> [o EXCEPT !.len = 0], err |-> TRUE]

(* What came of a value of that size.                                      *)
Body(in, size) == SubSeq(in, 5, IF Len(in) < 4 + size THEN Len(in) ELSE 4 + size)

Grown(buf, size) == IF Len(buf) < size THEN [i \in 1..size |-> 0] ELSE buf

(* Mutant: a buffer that is large enough is returned whole.                *)
ReadBytes_NotCut(o, in) ==
  LET size == Bytes2Uint32(in)
      buf == Over(Grown(o.buf, size), Body(in, size))
  IN
  IF Len(in) < 4 \/ size > MaxBytesSize THEN Refused(o)
  ELSE [o |-> [o EXCEPT !.buf = buf, !.len = Len(buf)], err |-> Len(in) < 4 + size]

(* Mutant: the buffer is not made larger.                                  *)
ReadBytes_NotGrown(o, in) ==
  LET size == Bytes2Uint32(in) IN
  IF Len(in) < 4 \/ size > MaxBytesSize THEN Refused(o)
  ELSE [o |-> [o EXCEPT !.len = size], err |-> Len(in) < 4 + size]

(* The value of in, read over the old one; when in ends within it, what    *)
(* the buffer held before shows behind what came.                          *)
ReadBytes(o, in) ==
  LET size == Bytes2Uint32(in)
      buf == Over(Grown(o.buf, size), Body(in, size))
  IN
  IF Len(in) < 4 \/ size > MaxBytesSize THEN Refused(o)
  ELSE [o |-> [o EXCEPT !.buf = buf, !.len = size], err |-> Len(in) < 4 + size]

ReadFrame(o, in) ==
  IF Len(in) < 2 THEN [o |-> o, err |-> TRUE]
  ELSE ReadBytes([o EXCEPT !.head = in[2]], SubSeq(in, 3, Len(in)))

SizeOf(in) == Bytes2Uint32(SubSeq(in, 3, 6))
After(in) == SubSeq(in, 7 + SizeOf(in), Len(in))

(* A reader blocks until the frame is there, or the end of the stream.     *)
Readable(in) ==
  \/ Len(in) >= 6 /\ (SizeOf(in) > MaxBytesSize \/ Len(in) >= 6 + SizeOf(in))
  \/ ~connected /\ in # <<>>

-----------------------------------------------------------------------------
(* doUnary.                                                                *)

Acquire(p, o, q, m) ==
  /\ call[p].pc = "idle" /\ Len(asked) < MaxCalls
  /\ o \in freeRequests /\ q \in freeResponses
  /\ freeRequests' = freeRequests \ {o} /\ freeResponses' = freeResponses \ {q}
  /\ requests' = [requests EXCEPT ![o] =
                    AppendValue([@ EXCEPT !.head = m.head], m.value)]
  /\ asked' = Append(asked, m)
  /\ call' = [call EXCEPT ![p] =
                [pc |-> "ready", n |-> Len(asked'), req |-> o, resp |-> q]]
  /\ result' = [result EXCEPT ![p] = NoResult]
  /\ UNCHANGED <<responses, stream, ctx, served>>

MoveTo(p, from, to) ==
  call[p].pc = from /\ call' = [call EXCEPT ![p].pc = to]

WriteRequest(p) ==
  LET frame == Frame(call[p].n, requests[call[p].req]) IN
  /\ connected
  /\ MoveTo(p, "ready", IF frame.err THEN "failed" ELSE "waiting")
  /\ up' = up \o frame.bytes /\ connected' = ~frame.err
  /\ UNCHANGED <<pools, down, ctx, asked, served, result>>

(* Mutant: a request nobody answered in time is sent again.                *)
Fail_Again(p) ==
  /\ MoveTo(p, "ready", "failed") \/ MoveTo(p, "waiting", "ready")
  /\ UNCHANGED <<pools, stream, ctx, asked, served, result>>

(* DoDeadline returns an error: the queue is full, the deadline is over or *)
(* the connection is.  fastrpc forgets the request first.                  *)
Fail(p) ==
  /\ MoveTo(p, "ready", "failed") \/ MoveTo(p, "waiting", "failed")
  /\ UNCHANGED <<pools, stream, ctx, asked, served, result>>

Waiting(n) == {p \in Callers : call[p].pc = "waiting" /\ call[p].n = n}

(* An answer, for whoever waits for its number.                            *)
ReadResponse ==
  LET for == Waiting(down[1])
      old == IF for = {} THEN New
             ELSE responses[call[CHOOSE p \in for : TRUE].resp]
      read == ReadFrame(old, down)
  IN
  /\ Readable(down)
  /\ responses' = [o \in Objects |->
       IF \E p \in for : call[p].resp = o THEN read.o ELSE responses[o]]
  /\ call' = [p \in Callers |->
       IF p \in for
       THEN [call[p] EXCEPT !.pc = IF read.err THEN "failed" ELSE "answered"]
       ELSE call[p]]
  /\ connected' = (connected /\ ~read.err)
  /\ down' = IF read.err THEN <<>> ELSE After(down)
  /\ UNCHANGED <<requests, freeRequests, freeResponses, up, ctx, asked, served, result>>

(* The status and the value are used before both objects are released.     *)
Return(p) ==
  LET o == call[p].req
      q == call[p].resp
  IN
  /\ call[p].pc \in {"answered", "failed"}
  /\ result' = [result EXCEPT ![p] =
       [ok |-> call[p].pc = "answered", n |-> call[p].n,
        head |-> responses[q].head, value |-> Value(responses[q])]]
  /\ requests' = [requests EXCEPT ![o] = Reset(@)]
  /\ responses' = [responses EXCEPT ![q] = ResetResponse(@)]
  /\ freeRequests' = freeRequests \cup {o} /\ freeResponses' = freeResponses \cup {q}
  /\ call' = [call EXCEPT ![p].pc = "idle"]
  /\ UNCHANGED <<stream, ctx, asked, served>>

-----------------------------------------------------------------------------
(* The server.                                                             *)

ReadRequest(k) ==
  LET read == ReadFrame(Reset(ctx[k].request), up) IN
  /\ ctx[k].phase = "idle" /\ Readable(up)
  /\ ctx' = [ctx EXCEPT ![k] =
       [phase |-> IF read.err THEN "idle" ELSE "serve", n |-> up[1],
        live |-> TRUE, request |-> read.o, response |-> ResetResponse(@.response)]]
  /\ connected' = (connected /\ ~read.err)
  /\ up' = IF read.err THEN <<>> ELSE After(up)
  /\ UNCHANGED <<pools, call, down, asked, served, result>>

Asked(o) == [head |-> o.head, value |-> Value(o)]

(* The handler; what no caller sent is an invalid request (status 5).      *)
Handle(k) ==
  LET m == Asked(ctx[k].request)
      answer == IF m \in Messages THEN Answers[m] ELSE [head |-> 5, value |-> <<>>]
  IN
  /\ ctx[k].phase = "serve"
  /\ ctx' = [ctx EXCEPT ![k].phase = "done",
       ![k].response = AppendValue([@ EXCEPT !.head = answer.head], answer.value)]
  /\ served' = Append(served, <<ctx[k].n, m>>)
  /\ UNCHANGED <<pools, call, stream, asked, result>>

(* To the connection the request came by, if it is still there.            *)
WriteResponse(k) ==
  LET frame == Frame(ctx[k].n, ctx[k].response) IN
  /\ ctx[k].phase = "done"
  /\ ctx' = [ctx EXCEPT ![k].phase = "idle"]
  /\ IF connected /\ ctx[k].live
     THEN down' = down \o frame.bytes /\ connected' = ~frame.err
     ELSE UNCHANGED <<down, connected>>
  /\ UNCHANGED <<pools, call, up, asked, served, result>>

-----------------------------------------------------------------------------
(* The connection ends, whoever closes it, and is dialed again.            *)

Close ==
  /\ connected /\ connected' = FALSE
  /\ up' \in Prefixes(up) /\ down' \in Prefixes(down)
  /\ UNCHANGED <<pools, call, ctx, asked, served, result>>

Dial ==
  /\ ~connected /\ connected' = TRUE
  /\ \A p \in Callers : call[p].pc # "waiting"
  /\ up' = <<>> /\ down' = <<>>
  /\ ctx' = [k \in Ctxs |-> [ctx[k] EXCEPT !.live = FALSE]]
  /\ UNCHANGED <<pools, call, asked, served, result>>

Call(p) ==
  \/ \E o, q \in Objects, m \in Messages : Acquire(p, o, q, m)
  \/ WriteRequest(p) \/ Fail(p) \/ Return(p)

Serve(k) == ReadRequest(k) \/ Handle(k) \/ WriteResponse(k)

Next ==
  \/ \E p \in Callers : Call(p)
  \/ \E k \in Ctxs : Serve(k)
  \/ ReadResponse \/ Close \/ Dial

Spec == Init /\ [][Next]_vars
-----------------------------------------------------------------------------
(* client.go:103-128, response.go:66-92, common.go:28-46: a call that got  *)
(* an answer returns, byte for byte, what the server answered to that very *)
(* request, whoever used the objects before it.                            *)
OwnAnswer ==
  \A p \in Callers : result[p].ok =>
    [head |-> result[p].head, value |-> result[p].value] = Answers[asked[result[p].n]]

(* client.go:84-128, common.go:9-46, requestCtx.go:33-46: seen from        *)
(* outside, each request is served at most once and as it was asked,       *)
(* whole, and who has an answer was served; an abandoned call may be       *)
(* served yet.                                                             *)
Calls == INSTANCE AtMostOnce WITH
  under <- [p \in Callers |-> IF call[p].pc = "idle" THEN 0 ELSE call[p].n],
  told <- [p \in Callers |->
    IF result[p].ok THEN <<[head |-> result[p].head, value |-> result[p].value]>>
    ELSE <<>>]

ServedOnce == Calls!Spec

=============================================================================

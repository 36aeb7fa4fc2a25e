------------------------- MODULE HeadAndOptionsProof --------------------------
(****************************************************************************)
(* What HEAD and OPTIONS say of a path is what its other methods do, for    *)
(* any application, request and script of RequestPipeline.                  *)
(****************************************************************************)
EXTENDS RequestPipelineProof

-----------------------------------------------------------------------------
(* A response that nobody has ended.                                        *)

\* A table of headers is a function.
Table(f) == f = [n \in DOMAIN f |-> f[n]]

\* Nothing has been sent; the headers that were set are known to the wrapper
\* and to the response that it wraps.
Open(r, w, own, status) ==
    /\ Shape(r) /\ Table(own) /\ status \in Nat
    /\ Quiet(r) /\ r.wrapped = w /\ ~r.head /\ ~r.chunked /\ r.cookie = "none"
    /\ r.own = own /\ r.status = status
    /\ ~r.wire.sent /\ ~r.wire.ended /\ r.wire.length = "unknown"
    /\ r.wire.headers = IF w THEN own ELSE NoHeaders

\* The client has an answer; only the real response knows that it has a head.
Sent(r, w, own, status, length) ==
    /\ Shape(r) /\ Quiet(r) /\ r.wrapped = w /\ (r.head <=> ~w)
    /\ r.own = own /\ r.status = status
    /\ r.wire.sent /\ r.wire.ended
    /\ r.wire.status = status /\ r.wire.headers = own /\ r.wire.length = length

\* Tables that are put over another.
LEMMA OverIs ==
    ASSUME NEW f, Table(f)
    PROVE  /\ Over(f, f) = f /\ Over(NoHeaders, f) = f
           /\ Table(NoHeaders) /\ DOMAIN NoHeaders = {}
           /\ \A g : /\ Table(Over(g, f)) /\ DOMAIN Over(g, f) = DOMAIN g \union DOMAIN f
                     /\ \A n \in DOMAIN Over(g, f) :
                           Over(g, f)[n] = IF n \in DOMAIN g THEN g[n] ELSE f[n]
           /\ \A n, v : Table(Header(n, v)) /\ DOMAIN Header(n, v) = {n} /\ Header(n, v)[n] = v
<1>1. DOMAIN NoHeaders = {} /\ Table(NoHeaders)
  BY DEF NoHeaders, Table
<1>2. Over(f, f) = f
  BY DEF Over, Table
<1>3. Over(NoHeaders, f) = f
  <2>1. Over(NoHeaders, f) = [n \in DOMAIN f |-> f[n]]
    BY <1>1 DEF Over
  <2> QED
    BY <2>1 DEF Table
<1>4. \A g : /\ Table(Over(g, f)) /\ DOMAIN Over(g, f) = DOMAIN g \union DOMAIN f
             /\ \A n \in DOMAIN Over(g, f) :
                   Over(g, f)[n] = IF n \in DOMAIN g THEN g[n] ELSE f[n]
  BY DEF Over, Table
<1>5. \A n, v : Table(Header(n, v)) /\ DOMAIN Header(n, v) = {n} /\ Header(n, v)[n] = v
  BY DEF Header, Table
<1> QED
  BY <1>1, <1>2, <1>3, <1>4, <1>5

\* A header is set on the wrapper and on what it wraps.
LEMMA OpenHeader ==
    ASSUME NEW r, NEW w \in BOOLEAN, NEW own, NEW st, Open(r, w, own, st), NEW n, NEW v
    PROVE  Open(SetHeader(r, n, v), w, Over(Header(n, v), own), st)
<1> PICK f : f = Over(Header(n, v), own)
  OBVIOUS
<1>1. Table(f)
  BY OverIs DEF Open
<1> PICK set : set = [r EXCEPT !.own = f]
  OBVIOUS
<1>2. /\ Shape(set) /\ Quiet(set) /\ set.wrapped = w /\ ~set.head /\ ~set.chunked
      /\ set.cookie = "none" /\ set.own = f /\ set.status = st /\ set.wire = r.wire
  BY DEF Open, Shape, Quiet
<1>3. CASE ~w
  <2>1. SetHeader(r, n, v) = set
    BY <1>3 DEF SetHeader, Open
  <2> QED
    BY <1>1, <1>2, <1>3, <2>1 DEF Open
<1>4. CASE w
  <2>1. SetHeader(r, n, v) = [set EXCEPT !.wire.headers = f]
    <3>1. SetHeader(r, n, v) = [set EXCEPT !.wire.headers = Over(Header(n, v), @)]
      BY <1>4 DEF SetHeader, Open
    <3>2. set.wire.headers = own
      BY <1>2, <1>4 DEF Open
    <3> QED
      BY <3>1, <3>2
  <2> PICK e : e = [set EXCEPT !.wire.headers = f]
    OBVIOUS
  <2>2. /\ Shape(e) /\ e.threw = set.threw /\ e.wrapped = w /\ ~e.head /\ ~e.chunked
        /\ e.cookie = "none" /\ e.own = f /\ e.status = st
        /\ e.wire.sent = r.wire.sent /\ e.wire.ended = r.wire.ended
        /\ e.wire.length = r.wire.length /\ e.wire.headers = f
    BY <1>2 DEF Shape
  <2> QED
    BY <1>1, <1>2, <1>4, <2>1, <2>2 DEF Open, Quiet
<1> QED
  BY <1>3, <1>4

\* The status is set.
LEMMA OpenStatus ==
    ASSUME NEW r, NEW w, NEW own, NEW st, Open(r, w, own, st), NEW n \in Nat
    PROVE  Open(SetStatus(r, n), w, own, n)
<1>1. SetStatus(r, n) = [r EXCEPT !.status = n]
  BY DEF SetStatus, Open
<1> QED
  BY <1>1 DEF Open, Shape, Quiet

\* An exception that is caught leaves a response as it was.
LEMMA OpenCaught ==
    ASSUME NEW r, NEW w, NEW own, NEW st, Open(r, w, own, st), NEW e, e # "none"
    PROVE  /\ ~Quiet(Throws(r, e)) /\ Open(Throws(Throws(r, e), "none"), w, own, st)
           /\ Throws(r, e).threw = e
<1> PICK t : t = Throws(r, e)
  OBVIOUS
<1>1. /\ Shape(t) /\ t.threw = e /\ t.wrapped = r.wrapped /\ t.head = r.head
      /\ t.chunked = r.chunked /\ t.cookie = r.cookie /\ t.own = r.own /\ t.status = r.status
      /\ t.wire = r.wire
  BY DEF Open, Shape, Throws
<1> PICK u : u = Throws(t, "none")
  OBVIOUS
<1>2. /\ Shape(u) /\ Quiet(u) /\ u.wrapped = t.wrapped /\ u.head = t.head
      /\ u.chunked = t.chunked /\ u.cookie = t.cookie /\ u.own = t.own /\ u.status = t.status
      /\ u.wire = t.wire
  BY <1>1 DEF Shape, Throws, Quiet
<1> QED
  BY <1>1, <1>2 DEF Open, Quiet

\* An open response that is closed.
LEMMA ShutIs ==
    ASSUME NEW r, Shape(r), r.wire.length = "unknown", NEW length
    PROVE  LET s == Closed(r, length)
           IN  /\ Shape(s) /\ s.threw = r.threw /\ s.wrapped = r.wrapped /\ s.head = r.head
               /\ s.own = r.own /\ s.status = r.status /\ s.wire.sent = r.wire.sent
               /\ s.wire.ended /\ s.wire.status = r.wire.status
               /\ s.wire.headers = r.wire.headers /\ s.wire.length = length
<1>1. Closed(r, length) = [r EXCEPT !.wire.ended = TRUE, !.wire.length = length]
  BY DEF Closed, Shape
<1>2. PICK s : s = [r EXCEPT !.wire.ended = TRUE, !.wire.length = length]
  OBVIOUS
<1>3. /\ Shape(s) /\ s.threw = r.threw /\ s.wrapped = r.wrapped /\ s.head = r.head
      /\ s.own = r.own /\ s.status = r.status /\ s.wire.sent = r.wire.sent
      /\ s.wire.ended /\ s.wire.status = r.wire.status
      /\ s.wire.headers = r.wire.headers /\ s.wire.length = length
  BY <1>2 DEF Shape
<1> QED
  BY <1>1, <1>2, <1>3

\* A response sends its first line and its headers.
LEMMA FlushedIs ==
    ASSUME NEW r, Shape(r), NEW st, NEW hs
    PROVE  LET s == Flushed(r, st, hs)
           IN  /\ st \in Nat => Shape(s)
               /\ s.threw = r.threw /\ s.wrapped = r.wrapped /\ s.head = r.head
               /\ s.own = r.own /\ s.status = r.status /\ s.wire.sent
               /\ s.wire.ended = r.wire.ended /\ s.wire.status = st
               /\ s.wire.headers = hs /\ s.wire.length = r.wire.length
<1>1. PICK s : s = Flushed(r, st, hs)
  OBVIOUS
<1>2. /\ st \in Nat => Shape(s)
      /\ s.threw = r.threw /\ s.wrapped = r.wrapped /\ s.head = r.head
      /\ s.own = r.own /\ s.status = r.status /\ s.wire.sent
      /\ s.wire.ended = r.wire.ended /\ s.wire.status = st
      /\ s.wire.headers = hs /\ s.wire.length = r.wire.length
  BY <1>1 DEF Shape, Flushed
<1> QED
  BY <1>1, <1>2

\* An open response is ended: its headers go to the client, with and without the
\* wrapper.
LEMMA OpenEnd ==
    ASSUME NEW r, NEW w \in BOOLEAN, NEW own, NEW st, Open(r, w, own, st), NEW body
    PROVE  Sent(End(r, body), w, own, st, body)
<1>1. Shape(r) /\ Quiet(r) /\ r.wire.length = "unknown" /\ Table(own) /\ st \in Nat
  BY DEF Open
<1>2. Over(own, own) = own /\ Over(NoHeaders, own) = own
  BY <1>1, OverIs
<1>3. CASE w
  <2> PICK f : f = Flushed(r, st, own)
    OBVIOUS
  <2>1. End(r, body) = Closed(f, body)
    BY <1>2, <1>3 DEF End, EndWrapper, Open
  <2>2. /\ Shape(f) /\ f.threw = r.threw /\ f.wrapped = r.wrapped /\ f.head = r.head
        /\ f.own = r.own /\ f.status = r.status /\ f.wire.sent
        /\ f.wire.status = st /\ f.wire.headers = own /\ f.wire.length = "unknown"
    BY <1>1, FlushedIs
  <2> PICK c : c = Closed(f, body)
    OBVIOUS
  <2>3. /\ Shape(c) /\ c.threw = f.threw /\ c.wrapped = f.wrapped /\ c.head = f.head
        /\ c.own = f.own /\ c.status = f.status /\ c.wire.sent = f.wire.sent
        /\ c.wire.ended /\ c.wire.status = f.wire.status
        /\ c.wire.headers = f.wire.headers /\ c.wire.length = body
    <3>1. Shape(f) /\ f.wire.length = "unknown"
      BY <2>2
    <3> QED
      BY <3>1, ShutIs
  <2> QED
    BY <1>3, <2>1, <2>2, <2>3 DEF Open, Sent, Quiet
<1>4. CASE ~w
  <2>6. PICK made : made = [[r EXCEPT !.status = st, !.head = TRUE] EXCEPT !.own = own]
    OBVIOUS
  <2>1. /\ Shape(made) /\ made.threw = r.threw /\ made.wrapped = w /\ made.head
        /\ made.own = own /\ made.status = st /\ made.wire = r.wire
    BY <1>1, <2>6 DEF Shape, Open
  <2>2. WriteHead(r, st, NoHeaders) = Flushed(made, st, own)
    <3>1. WithCookie(r) = r
      BY DEF WithCookie, Open
    <3> QED
      BY <1>2, <1>4, <2>6, <3>1 DEF WriteHead, Open
  <2> PICK f : f = Flushed(made, st, own)
    OBVIOUS
  <2>3. End(r, body) = Closed(f, body)
    BY <1>4, <2>2 DEF End, EndReal, Open
  <2>4. /\ Shape(f) /\ f.threw = r.threw /\ f.wrapped = w /\ f.head
        /\ f.own = own /\ f.status = st /\ f.wire.sent
        /\ f.wire.status = st /\ f.wire.headers = own /\ f.wire.length = "unknown"
    <3>1. Shape(made) /\ st \in Nat
      BY <1>1, <2>1
    <3>2. /\ Shape(f) /\ f.threw = made.threw /\ f.wrapped = made.wrapped /\ f.head = made.head
          /\ f.own = made.own /\ f.status = made.status /\ f.wire.sent
          /\ f.wire.status = st /\ f.wire.headers = own /\ f.wire.length = made.wire.length
      BY <3>1, FlushedIs
    <3> QED
      BY <1>1, <2>1, <3>2
  <2> PICK c : c = Closed(f, body)
    OBVIOUS
  <2>5. /\ Shape(c) /\ c.threw = f.threw /\ c.wrapped = f.wrapped /\ c.head = f.head
        /\ c.own = f.own /\ c.status = f.status /\ c.wire.sent = f.wire.sent
        /\ c.wire.ended /\ c.wire.status = f.wire.status
        /\ c.wire.headers = f.wire.headers /\ c.wire.length = body
    <3>1. Shape(f) /\ f.wire.length = "unknown"
      BY <2>4
    <3> QED
      BY <3>1, ShutIs
  <2> QED
    BY <1>1, <1>4, <2>3, <2>4, <2>5 DEF Sent, Quiet
<1> QED
  BY <1>3, <1>4

\* Ending an answer again changes nothing for the client.
LEMMA SentAgain ==
    ASSUME NEW r, NEW w \in BOOLEAN, NEW own, NEW st, NEW n, Sent(r, w, own, st, n), NEW body
    PROVE  Sent(End(r, body), w, own, st, n)
<1>1. CASE w
  <2> PICK e : e = [r EXCEPT !.wire.ended = TRUE]
    OBVIOUS
  <2>1. End(r, body) = e
    BY <1>1 DEF End, EndWrapper, Sent
  <2>2. /\ Shape(e) /\ e.threw = r.threw /\ e.wrapped = r.wrapped /\ e.head = r.head
        /\ e.own = r.own /\ e.status = r.status /\ e.wire.sent = r.wire.sent
        /\ e.wire.ended /\ e.wire.status = r.wire.status
        /\ e.wire.headers = r.wire.headers /\ e.wire.length = r.wire.length
    BY DEF Sent, Shape
  <2> QED
    BY <2>1, <2>2 DEF Sent, Quiet
<1>2. CASE ~w
  <2>1. End(r, body) = r
    BY <1>2 DEF End, EndReal, Sent
  <2> QED
    BY <2>1
<1> QED
  BY <1>1, <1>2

\* The headers of an answer to an error.
ErrorHeaders(own) == Over(Header("content-type", "json"), Over(Header("x-requestId", "id"), own))

\* The error handler answers an open response.
LEMMA OpenError ==
    ASSUME NEW r, NEW w \in BOOLEAN, NEW own, NEW st, Open(r, w, own, st), NEW n \in Nat
    PROVE  Sent(ErrorAnswered(r, n), w, ErrorHeaders(own), n, "error")
<1> PICK failed : failed = SetStatus(r, n)
  OBVIOUS
<1> PICK a : a = SetHeader(failed, "x-requestId", "id")
  OBVIOUS
<1> PICK c : c = SetHeader(a, "content-type", "json")
  OBVIOUS
<1>1. Open(failed, w, own, n)
  BY OpenStatus
<1>2. Open(a, w, Over(Header("x-requestId", "id"), own), n)
  BY <1>1, OpenHeader
<1>3. Open(c, w, ErrorHeaders(own), n)
  BY <1>2, OpenHeader DEF ErrorHeaders
<1>4. ErrorAnswered(r, n) = End(c, "error")
  BY <1>1 DEF ErrorAnswered, HeadersSent, Open, SendJson, Send
<1> QED
  BY <1>3, <1>4, OpenEnd

\* The headers of the Response that a guard gives.
GuardHeaders(own) == Over(Header("content-type", "text"), Over(Header("x-from", "response"), own))

\* A Response of a guard: its headers are those of the client, with and without
\* the wrapper; only the framing differs.
LEMMA OpenResponse ==
    ASSUME NEW r, NEW w \in BOOLEAN, NEW own, NEW st, Open(r, w, own, st), NEW n \in Nat
    PROVE  LET s == ApplyResponse(r, n)
           IN  /\ Shape(s) /\ Quiet(s) /\ s.head /\ s.wire.sent /\ s.wire.ended
               /\ s.wire.status = n /\ s.wire.headers = GuardHeaders(own)
               /\ s.cookie = "none"
<1> DEFINE given == Header("content-type", "text")
           from == Over(Header("x-from", "response"), own)
           all == Over(given, from)
<1>9. PICK a : a = [r EXCEPT !.own = from]
  OBVIOUS
<1>1. AppendHeader(r, "x-from", "response") = a
  BY <1>9 DEF AppendHeader, Open
<1>2. /\ Shape(a) /\ Quiet(a) /\ a.wrapped = w /\ ~a.head /\ ~a.chunked /\ a.cookie = "none"
      /\ a.own = from /\ a.wire = r.wire
  BY <1>9 DEF Shape, Open, Quiet
<1>3. /\ Table(own) /\ Table(from) /\ from # NoHeaders
      /\ Over(all, Over(given, own)) = all
  <2>1. Table(own)
    BY DEF Open
  <2>2. Table(from) /\ DOMAIN from = {"x-from"} \union DOMAIN own
    <3>1. \A n1, v : DOMAIN Header(n1, v) = {n1}
      BY <2>1, OverIs
    <3>2. \A g : Table(Over(g, own)) /\ DOMAIN Over(g, own) = DOMAIN g \union DOMAIN own
      BY <2>1, OverIs
    <3> QED
      BY <3>1, <3>2
  <2>3. DOMAIN NoHeaders = {}
    BY <2>1, OverIs
  <2>4. /\ Table(all) /\ DOMAIN all = {"content-type"} \union DOMAIN from
        /\ DOMAIN given = {"content-type"}
    <3>1. \A n1, v : DOMAIN Header(n1, v) = {n1}
      BY <2>1, OverIs
    <3>2. \A g : Table(Over(g, from)) /\ DOMAIN Over(g, from) = DOMAIN g \union DOMAIN from
      BY <2>2, OverIs
    <3> QED
      BY <3>1, <3>2
  <2> PICK g : g = Over(given, own)
    OBVIOUS
  <2>5. Table(g) /\ DOMAIN g = {"content-type"} \union DOMAIN own
    BY <2>1, <2>4, OverIs
  <2>6. Over(all, g) = all
    <3> HIDE DEF all, given
    <3>1. DOMAIN all \union DOMAIN g = DOMAIN all
      BY <2>2, <2>4, <2>5
    <3>2. Over(all, g) = [k \in DOMAIN all |-> all[k]]
      BY <3>1 DEF Over
    <3> QED
      BY <2>4, <3>2 DEF Table
  <2> QED
    BY <2>1, <2>2, <2>3, <2>6
<1>10. PICK made : made = [a EXCEPT !.status = n, !.head = TRUE]
  OBVIOUS
<1>4. /\ Shape(made) /\ Quiet(made) /\ made.wrapped = w /\ made.head /\ ~made.chunked
      /\ made.cookie = "none" /\ made.status = n /\ made.wire = r.wire
  BY <1>2, <1>10 DEF Shape, Quiet
<1>5. WithCookie(a) = a
  BY <1>2 DEF WithCookie
<1>11. PICK e : e = [made EXCEPT !.own = all]
  OBVIOUS
<1>6. /\ Shape(e) /\ Quiet(e) /\ e.wrapped = w /\ e.head /\ ~e.chunked
      /\ e.cookie = "none" /\ e.status = n /\ e.wire = r.wire /\ e.own = all
  BY <1>4, <1>11 DEF Shape, Quiet
<1> HIDE DEF all, from
<1>7. CASE ~w
  <2> PICK f : f = Flushed(e, n, all)
    OBVIOUS
  <2>1. WriteHead(a, n, given) = f
    BY <1>2, <1>5, <1>7, <1>10, <1>11 DEF WriteHead, all, from
  <2>2. /\ Shape(f) /\ f.threw = e.threw /\ f.wrapped = w /\ f.head /\ f.wire.sent
        /\ ~f.wire.ended /\ f.wire.status = n /\ f.wire.headers = all
        /\ f.wire.length = "unknown" /\ f.cookie = "none"
    <3>1. f.cookie = "none"
      BY <1>6 DEF Flushed, Shape
    <3>2. Shape(e) /\ n \in Nat
      BY <1>6
    <3>3. /\ Shape(f) /\ f.threw = e.threw /\ f.wrapped = e.wrapped /\ f.head = e.head
          /\ f.wire.sent /\ f.wire.ended = e.wire.ended /\ f.wire.status = n
          /\ f.wire.headers = all /\ f.wire.length = e.wire.length
      BY <3>2, FlushedIs
    <3>4. ~e.wire.ended /\ e.wire.length = "unknown"
      BY <1>6 DEF Open
    <3> QED
      BY <1>6, <3>1, <3>3, <3>4
  <2> PICK c : c = Closed(f, "chunked")
    OBVIOUS
  <2>3. End(f, "text") = c
    BY <1>6, <1>7, <2>2 DEF End, EndReal, Quiet
  <2>4. c.cookie = "none"
    BY <2>2 DEF Closed, Shape
  <2>5. /\ Shape(c) /\ Quiet(c) /\ c.head /\ c.wire.sent /\ c.wire.ended
        /\ c.wire.status = n /\ c.wire.headers = all
    BY <1>6, <2>2, ShutIs DEF Quiet
  <2> QED
    BY <1>1, <2>1, <2>3, <2>4, <2>5 DEF ApplyResponse, GuardHeaders, all, from
<1>8. CASE w
  <2> PICK hs : hs = Over(given, own)
    OBVIOUS
  <2>7. PICK f : f = [e EXCEPT !.wire.headers = hs]
    OBVIOUS
  <2>1. WriteHead(a, n, given) = f
    <3>1. WriteHead(a, n, given) = [made EXCEPT !.own = all, !.wire.headers = Over(given, @)]
      <4>1. a.own # NoHeaders /\ ~a.wire.sent /\ all = Over(given, a.own)
        BY <1>2, <1>3 DEF Open, all
      <4> HIDE DEF given
      <4> QED
        BY <1>2, <1>5, <1>8, <1>10, <4>1 DEF WriteHead
    <3>2. made.wire.headers = own
      BY <1>4, <1>8 DEF Open
    <3>3. e.wire.headers = own
      BY <1>6, <1>8 DEF Open
    <3>4. WriteHead(a, n, given) = [e EXCEPT !.wire.headers = Over(given, @)]
      BY <1>11, <3>1
    <3> QED
      BY <2>7, <3>3, <3>4
  <2>2. /\ Shape(f) /\ f.threw = e.threw /\ f.wrapped = w /\ f.head /\ ~f.chunked
        /\ ~f.wire.sent /\ f.wire.headers = hs /\ f.own = all /\ f.status = n
        /\ f.wire.length = "unknown" /\ f.cookie = "none"
    BY <1>6, <2>7 DEF Shape, Open
  <2> PICK s : s = Flushed(f, n, all)
    OBVIOUS
  <2> PICK c : c = Closed(s, "text")
    OBVIOUS
  <2>3. End(f, "text") = c
    <3>1. Over(f.own, f.wire.headers) = all
      BY <1>3, <2>2
    <3> QED
      BY <1>6, <1>8, <2>2, <3>1 DEF End, EndWrapper, Quiet
  <2>4. /\ Shape(s) /\ s.threw = f.threw /\ s.head /\ s.wire.sent
        /\ s.wire.status = n /\ s.wire.headers = all /\ s.wire.length = "unknown"
        /\ s.cookie = "none"
    <3>1. s.cookie = "none"
      BY <2>2 DEF Flushed, Shape
    <3>2. Shape(f) /\ n \in Nat
      BY <2>2
    <3>3. /\ Shape(s) /\ s.threw = f.threw /\ s.head = f.head /\ s.wire.sent
          /\ s.wire.status = n /\ s.wire.headers = all /\ s.wire.length = f.wire.length
      BY <3>2, FlushedIs
    <3> QED
      BY <2>2, <3>1, <3>3
  <2>5. c.cookie = "none"
    BY <2>4 DEF Closed, Shape
  <2>6. /\ Shape(c) /\ Quiet(c) /\ c.head /\ c.wire.sent /\ c.wire.ended
        /\ c.wire.status = n /\ c.wire.headers = all
    BY <1>6, <2>2, <2>4, ShutIs DEF Quiet
  <2> QED
    BY <1>1, <2>1, <2>3, <2>5, <2>6 DEF ApplyResponse, GuardHeaders, all, from
<1> QED
  BY <1>7, <1>8

-----------------------------------------------------------------------------
(* A request for GET or HEAD: where it stops on its way down the chain h, with *)
(* the script s, and what the answer is then, from the response b on.          *)

Stops(h, s, i) ==
    \/ h.chain[i] = "guards" /\ s.guard # "true"
    \/ h.chain[i] = "own" /\ s.own \in {"answers", "throws"}
    \/ h.chain[i] = "body" /\ s.parse # "ok"
    \/ h.chain[i] = "backend"
FirstStop(h, s, i) ==
    i \in DOMAIN h.chain /\ Stops(h, s, i) /\ \A n \in 1..(i - 1) : ~Stops(h, s, n)

\* User code leaves the response to the pipeline, and opens no session.
Left(h, s, i) ==
    h.chain[i] = "backend" => s.handler \in {"text", "json", "nothing", "setsType", "throws"}

\* The headers that CORS has set on the way.
HeadersAt(h, i) ==
    IF \E n \in 1..(i - 1) : h.chain[n] = "cors" THEN Header("access", "all") ELSE NoHeaders

\* The value, and the response, with which the request turns back.
ValueAt(h, s, i) ==
    CASE h.chain[i] = "guards" /\ s.guard = "response" -> "json"
      [] h.chain[i] = "own" /\ s.own = "answers" -> "text"
      [] h.chain[i] = "backend" /\ s.handler \in {"text", "json"} -> s.handler
      [] OTHER -> "nothing"
ResponseAt(b, h, s, i) ==
    CASE h.chain[i] = "guards" /\ s.guard = "false" -> End(SetStatus(b, 401), "empty")
      [] h.chain[i] = "guards" /\ s.guard = "response" -> ApplyResponse(b, 403)
      [] h.chain[i] = "own" /\ s.own = "answers" -> b
      [] h.chain[i] = "backend" /\ s.handler = "setsType" -> SetHeader(b, "content-type", "html")
      [] h.chain[i] = "backend" /\ s.handler \notin {"setsType", "throws"} -> b
      [] OTHER -> Throws(b, "error")

\* After, for the value v.
AfterOf(r, v) ==
    LET type == HeaderOf(r, "content-type")
        body == IF v = "nothing" THEN "empty" ELSE v
    IN  IF HeadersSent(r) THEN r
        ELSE IF v = "json" \/ type = "json" THEN SendJson(r, body)
        ELSE IF type # "none" /\ v = "nothing" THEN Throws(r, "typeError")
        ELSE Send(IF v = "text" /\ type = "none"
                  THEN SetHeader(r, "content-type", "text") ELSE r, body)
ThrowsLate(h, s, i) == s.own = "throwsAfter" /\ \E n \in 1..i : h.chain[n] = "own"

\* The status of an error e.
StatusFor(s, e) == IF e = "error" /\ s.status # 0 THEN s.status ELSE 500

\* The response at the end of the chain, and of the request; what is told of it.
Returned(b, h, s, i) ==
    LET r == ResponseAt(b, h, s, i)
    IN  IF ~Quiet(r) THEN r
        ELSE IF ThrowsLate(h, s, i) THEN Throws(r, "error") ELSE AfterOf(r, ValueAt(h, s, i))
Answered(b, h, s, i) ==
    LET r == Returned(b, h, s, i)
    IN  IF Quiet(r) THEN r ELSE ErrorAnswered(Throws(r, "none"), StatusFor(s, r.threw))
Told(b, h, s, i) ==
    [wire |-> Answered(b, h, s, i).wire,
     logged |-> IF Quiet(Returned(b, h, s, i)) THEN 0 ELSE 1]

\* It tells of this status, these headers and this length, and of n errors.
Tells(b, h, s, i, st, own, length, n) ==
    /\ Quiet(Answered(b, h, s, i))
    /\ Told(b, h, s, i).wire.status = st /\ Told(b, h, s, i).wire.headers = own
    /\ Told(b, h, s, i).wire.length = length /\ Told(b, h, s, i).logged = n

\* After an exception: the answer of the error handler.
LEMMA FailedTells ==
    ASSUME NEW b, NEW h, NEW s, NEW i, NEW r, NEW w \in BOOLEAN, NEW own, NEW st,
           Open(r, w, own, st), NEW e, e # "none", Returned(b, h, s, i) = Throws(r, e),
           StatusFor(s, e) \in Nat
    PROVE  Tells(b, h, s, i, StatusFor(s, e), ErrorHeaders(own), "error", 1)
<1> PICK n \in Nat : n = StatusFor(s, e)
  OBVIOUS
<1>1. /\ ~Quiet(Throws(r, e)) /\ Open(Throws(Throws(r, e), "none"), w, own, st)
      /\ Throws(r, e).threw = e
  BY OpenCaught
<1>2. Sent(ErrorAnswered(Throws(Throws(r, e), "none"), n), w, ErrorHeaders(own), n, "error")
  BY <1>1, OpenError
<1>3. Answered(b, h, s, i) = ErrorAnswered(Throws(Throws(r, e), "none"), n)
  BY <1>1 DEF Answered
<1>4. ~Quiet(Returned(b, h, s, i))
  BY <1>1
<1> HIDE DEF Answered, Returned
<1> QED
  BY <1>2, <1>3, <1>4 DEF Tells, Told, Sent

\* Without one: what the end of the chain has sent.
LEMMA FineTells ==
    ASSUME NEW b, NEW h, NEW s, NEW i, NEW w, NEW own, NEW st, NEW n,
           Sent(Returned(b, h, s, i), w, own, st, n)
    PROVE  Tells(b, h, s, i, st, own, n, 0)
<1>1. Quiet(Returned(b, h, s, i)) /\ Answered(b, h, s, i) = Returned(b, h, s, i)
  BY DEF Sent, Answered
<1> QED
  BY <1>1 DEF Tells, Told, Sent

\* The headers after a value of the controller was sent.
AfterHeaders(own, v) == IF v = "nothing" THEN own ELSE Over(Header("content-type", v), own)

\* HttpFrontend sends the value with an open response whose type is not set.
LEMMA OpenAfter ==
    ASSUME NEW r, NEW w \in BOOLEAN, NEW own, NEW st, Open(r, w, own, st),
           NEW v \in {"nothing", "text", "json"}, "content-type" \notin DOMAIN own
    PROVE  Sent(AfterOf(r, v), w, AfterHeaders(own, v), st, IF v = "nothing" THEN "empty" ELSE v)
<1>1. HeaderOf(r, "content-type") = "none" /\ ~HeadersSent(r)
  BY DEF HeaderOf, HeadersSent, Open
<1>2. CASE v = "nothing"
  <2>1. AfterOf(r, v) = End(r, "empty")
    BY <1>1, <1>2 DEF AfterOf, Send
  <2> QED
    BY <1>2, <2>1, OpenEnd DEF AfterHeaders
<1>3. CASE v # "nothing"
  <2> PICK t : t = SetHeader(r, "content-type", v)
    OBVIOUS
  <2>1. Open(t, w, AfterHeaders(own, v), st)
    BY <1>3, OpenHeader DEF AfterHeaders
  <2>2. AfterOf(r, v) = End(t, v)
    BY <1>1, <1>3 DEF AfterOf, Send, SendJson
  <2> QED
    BY <1>3, <2>1, <2>2, OpenEnd
<1> QED
  BY <1>2, <1>3

\* It sends nothing more when the chain has answered.
LEMMA SentAfter ==
    ASSUME NEW r, NEW w \in BOOLEAN, NEW own, NEW st, NEW n, Sent(r, w, own, st, n),
           "content-type" \notin DOMAIN own
    PROVE  Sent(AfterOf(r, "nothing"), w, own, st, n)
<1>1. HeaderOf(r, "content-type") = "none"
  BY DEF HeaderOf, Sent
<1>2. AfterOf(r, "nothing") = r \/ AfterOf(r, "nothing") = End(r, "empty")
  BY <1>1 DEF AfterOf, Send
<1> QED
  BY <1>2, SentAgain

\* A request that a guard has stopped has met no interceptor of the route.
LEMMA GuardsAreEarly ==
    ASSUME NEW h, ChainFits(h), NEW s, NEW i \in DOMAIN h.chain, h.chain[i] = "guards"
    PROVE  ~ThrowsLate(h, s, i)
<1>1. i = 2 /\ h.chain[1] = "frontend"
  BY PlacesAre DEF ChainFits
<1>2. ASSUME NEW n \in 1..i PROVE h.chain[n] # "own"
  <2>1. n = 1 \/ n = 2
    BY <1>1
  <2> QED
    BY <1>1, <2>1
<1> QED
  BY <1>2 DEF ThrowsLate

\* As Tells, but for the framing of the Response of a guard.
Agrees(b, h, s, i, st, own, length, n) ==
    /\ Quiet(Answered(b, h, s, i))
    /\ Told(b, h, s, i).wire.status = st /\ Told(b, h, s, i).wire.headers = own
    /\ Told(b, h, s, i).logged = n
    /\ s.guard # "response" => Told(b, h, s, i).wire.length = length

\* What is told of a request does not depend on whether there is a wrapper: it is
\* a matter of the chain, the script and the headers that are set.
LEMMA ToldAlike ==
    ASSUME NEW h, ChainFits(h), NEW s \in Scripts, NEW i, FirstStop(h, s, i), Left(h, s, i),
           NEW own, own \in {NoHeaders, Header("access", "all")}
    PROVE  \E st, hd, length, n : \A w \in BOOLEAN : \A b :
              Open(b, w, own, 200) => Agrees(b, h, s, i, st, hd, length, n)
<1> DEFINE Goal == \E st, hd, length, n : \A w \in BOOLEAN : \A b :
                     Open(b, w, own, 200) => Agrees(b, h, s, i, st, hd, length, n)
<1>1. /\ i \in DOMAIN h.chain /\ Stops(h, s, i)
      /\ s.guard \in {"true", "false", "response", "throws"}
      /\ s.handler \in Outcomes /\ s.parse \in {"ok", "throws"}
      /\ s.own \in {"next", "answers", "throws", "throwsAfter", "unbuildable"}
  BY ScriptAssumption DEF FirstStop
<1>2. "content-type" \notin DOMAIN own
  BY DEF NoHeaders, Header
<1>3. ASSUME NEW st, NEW hd, NEW length, NEW n,
             \A w \in BOOLEAN : \A b :
                Open(b, w, own, 200) => Tells(b, h, s, i, st, hd, length, n)
      PROVE  Goal
  <2>1. ASSUME NEW w \in BOOLEAN, NEW b, Open(b, w, own, 200)
        PROVE  Agrees(b, h, s, i, st, hd, length, n)
    BY <1>3, <2>1 DEF Tells, Agrees
  <2> QED
    BY <2>1
<1>4. ASSUME NEW from, NEW e, e # "none",
             \A w \in BOOLEAN : \A b : Open(b, w, own, 200) =>
                \E r : Open(r, w, from, 200) /\ Returned(b, h, s, i) = Throws(r, e)
      PROVE  Goal
  <2> PICK hd : hd = ErrorHeaders(from)
    OBVIOUS
  <2> PICK m \in Nat : m = StatusFor(s, e)
    BY ScriptAssumption DEF StatusFor
  <2>1. ASSUME NEW w \in BOOLEAN, NEW b, Open(b, w, own, 200)
        PROVE  Tells(b, h, s, i, m, hd, "error", 1)
    BY <1>4, <2>1, FailedTells
  <2> QED
    BY <1>3, <2>1
<1>5. ASSUME \A b : ResponseAt(b, h, s, i) = Throws(b, "error")
      PROVE  Goal
  <2>1. ASSUME NEW w \in BOOLEAN, NEW b, Open(b, w, own, 200)
        PROVE  Returned(b, h, s, i) = Throws(b, "error")
    BY <1>5, <2>1, OpenCaught DEF Returned
  <2> QED
    BY <1>4, <2>1
<1>6. ASSUME NEW v \in {"nothing", "text", "json"}, ValueAt(h, s, i) = v,
             \A b : ResponseAt(b, h, s, i) = b, ~ThrowsLate(h, s, i)
      PROVE  Goal
  <2> DEFINE length == IF v = "nothing" THEN "empty" ELSE v
  <2>1. ASSUME NEW w \in BOOLEAN, NEW b, Open(b, w, own, 200)
        PROVE  Tells(b, h, s, i, 200, AfterHeaders(own, v), length, 0)
    <3>1. Returned(b, h, s, i) = AfterOf(b, v)
      BY <1>6, <2>1 DEF Returned, Open
    <3>2. Sent(AfterOf(b, v), w, AfterHeaders(own, v), 200, length)
      BY <1>2, <2>1, OpenAfter
    <3> QED
      BY <3>1, <3>2, FineTells
  <2> HIDE DEF length
  <2> QED
    BY <1>3, <2>1
<1>7. CASE h.chain[i] = "guards"
  <2>1. ~ThrowsLate(h, s, i) /\ s.guard # "true"
    <3>1. ~ThrowsLate(h, s, i)
      BY <1>1, <1>7, GuardsAreEarly
    <3> QED
      BY <1>1, <1>7, <3>1 DEF Stops
  <2>2. CASE s.guard = "throws"
    <3>1. \A b : ResponseAt(b, h, s, i) = Throws(b, "error")
      BY <1>7, <2>2 DEF ResponseAt
    <3> QED
      BY <1>5, <3>1
  <2>3. CASE s.guard = "false"
    <3>1. ASSUME NEW w \in BOOLEAN, NEW b, Open(b, w, own, 200)
          PROVE  Tells(b, h, s, i, 401, own, "empty", 0)
      <4> PICK f : f = SetStatus(b, 401)
        OBVIOUS
      <4> PICK r : r = End(f, "empty")
        OBVIOUS
      <4>1. Open(f, w, own, 401)
        BY <3>1, OpenStatus
      <4>2. Sent(r, w, own, 401, "empty")
        BY <4>1, OpenEnd
      <4>3. ResponseAt(b, h, s, i) = r /\ ValueAt(h, s, i) = "nothing"
        BY <1>7, <2>3 DEF ResponseAt, ValueAt
      <4>4. Returned(b, h, s, i) = AfterOf(r, "nothing")
        BY <2>1, <4>2, <4>3 DEF Returned, Sent
      <4>5. Sent(AfterOf(r, "nothing"), w, own, 401, "empty")
        BY <1>2, <4>2, SentAfter
      <4> QED
        BY <4>4, <4>5, FineTells
    <3> QED
      BY <1>3, <3>1
  <2>4. CASE s.guard = "response"
    <3>1. ASSUME NEW w \in BOOLEAN, NEW b, Open(b, w, own, 200)
          PROVE  Agrees(b, h, s, i, 403, GuardHeaders(own), "text", 0)
      <4> PICK r : r = ApplyResponse(b, 403)
        OBVIOUS
      <4>1. /\ Quiet(r) /\ r.head /\ r.wire.status = 403
            /\ r.wire.headers = GuardHeaders(own)
        BY <3>1, OpenResponse
      <4>2. ResponseAt(b, h, s, i) = r
        BY <1>7, <2>4 DEF ResponseAt
      <4>3. Returned(b, h, s, i) = r
        BY <2>1, <4>1, <4>2 DEF Returned, AfterOf, HeadersSent
      <4>4. Answered(b, h, s, i) = r
        BY <4>1, <4>3 DEF Answered
      <4> QED
        BY <2>4, <4>1, <4>3, <4>4 DEF Agrees, Told
    <3> QED
      BY <3>1
  <2> QED
    BY <1>1, <2>1, <2>2, <2>3, <2>4
<1>8. CASE h.chain[i] = "own"
  <2>1. s.own \in {"answers", "throws"}
    BY <1>1, <1>8 DEF Stops
  <2>2. CASE s.own = "throws"
    <3>1. \A b : ResponseAt(b, h, s, i) = Throws(b, "error")
      BY <1>8, <2>2 DEF ResponseAt
    <3> QED
      BY <1>5, <3>1
  <2>3. CASE s.own = "answers"
    <3>1. \A b : ResponseAt(b, h, s, i) = b
      BY <1>8, <2>3 DEF ResponseAt
    <3>2. ValueAt(h, s, i) = "text" /\ ~ThrowsLate(h, s, i)
      BY <1>8, <2>3 DEF ValueAt, ThrowsLate
    <3> QED
      BY <1>6, <3>1, <3>2
  <2> QED
    BY <2>1, <2>2, <2>3
<1>9. CASE h.chain[i] = "body"
  <2>1. \A b : ResponseAt(b, h, s, i) = Throws(b, "error")
    BY <1>9 DEF ResponseAt
  <2> QED
    BY <1>5, <2>1
<1>10. CASE h.chain[i] = "backend"
  <2>1. s.handler \in {"text", "json", "nothing", "setsType", "throws"}
    BY <1>10 DEF Left
  <2>2. CASE s.handler = "throws"
    <3>1. \A b : ResponseAt(b, h, s, i) = Throws(b, "error")
      BY <1>10, <2>2 DEF ResponseAt
    <3> QED
      BY <1>5, <3>1
  <2>3. CASE s.handler = "setsType"
    <3> DEFINE from == Over(Header("content-type", "html"), own)
    <3>3. \A b : ResponseAt(b, h, s, i) = SetHeader(b, "content-type", "html")
      BY <1>10, <2>3 DEF ResponseAt
    <3> PICK e : e = IF ThrowsLate(h, s, i) THEN "error" ELSE "typeError"
      OBVIOUS
    <3>1. ASSUME NEW w \in BOOLEAN, NEW b, Open(b, w, own, 200)
          PROVE  \E r : Open(r, w, from, 200) /\ Returned(b, h, s, i) = Throws(r, e)
      <4> PICK r : r = SetHeader(b, "content-type", "html")
        OBVIOUS
      <4>1. Open(r, w, from, 200)
        BY <3>1, OpenHeader
      <4>2. ResponseAt(b, h, s, i) = r /\ ValueAt(h, s, i) = "nothing"
        <5>1. ResponseAt(b, h, s, i) = r
          BY <3>3
        <5>2. ValueAt(h, s, i) = "nothing"
          BY <1>10, <2>3 DEF ValueAt
        <5> QED
          BY <5>1, <5>2
      <4>3. "content-type" \in DOMAIN from /\ from["content-type"] = "html"
        BY DEF Over, Header
      <4> HIDE DEF from
      <4>4. HeaderOf(r, "content-type") = "html" /\ ~HeadersSent(r) /\ Quiet(r)
        BY <4>1, <4>3 DEF HeaderOf, HeadersSent, Open
      <4>5. AfterOf(r, "nothing") = Throws(r, "typeError")
        BY <4>4 DEF AfterOf
      <4>6. Returned(b, h, s, i) = Throws(r, e)
        BY <4>2, <4>4, <4>5 DEF Returned
      <4> QED
        BY <4>1, <4>6
    <3> HIDE DEF from
    <3>2. e # "none"
      OBVIOUS
    <3> QED
      BY <1>4, <3>1, <3>2
  <2>4. CASE s.handler \in {"text", "json", "nothing"}
    <3>1. \A b : ResponseAt(b, h, s, i) = b
      BY <1>10, <2>4 DEF ResponseAt
    <3>2. ValueAt(h, s, i) = s.handler
      BY <1>10, <2>4 DEF ValueAt
    <3>3. CASE ThrowsLate(h, s, i)
      <4>1. ASSUME NEW w \in BOOLEAN, NEW b, Open(b, w, own, 200)
            PROVE  Returned(b, h, s, i) = Throws(b, "error")
        BY <3>1, <3>3, <4>1 DEF Returned, Open
      <4> QED
        BY <1>4, <4>1
    <3>4. CASE ~ThrowsLate(h, s, i)
      BY <1>6, <2>4, <3>1, <3>2, <3>4
    <3> QED
      BY <3>3, <3>4
  <2> QED
    BY <2>1, <2>2, <2>3, <2>4
<1> QED
  BY <1>1, <1>7, <1>8, <1>9, <1>10 DEF Stops

-----------------------------------------------------------------------------
(* What is known of a request on its way.                                   *)

\* A response as it was made for the request, with these headers.
Begun(b, own) == \E w \in BOOLEAN : (w <=> method = "HEAD") /\ Open(b, w, own, 200)

\* How far a request is: its handler is that of the router.
Reaching ==
    /\ pc = "idle" => at = 0
    /\ pc # "idle" => phase = "serving" /\ script \in Scripts
    /\ pc = "find" => Begun(res, NoHeaders)
    /\ pc = "down" => Begun(res, HeadersAt(handler, at))
    /\ at > 0 => <<Served, path>> \in DOMAIN router /\ handler = router[<<Served, path>>]

\* What is told (t) of a request for GET, or for HEAD with the wrapper (w).
Key == <<"GET", path>>
Refusal(b, n, errors) == [wire |-> End(SetStatus(b, n), "empty").wire, logged |-> errors]
Recalls(t, w) ==
    IF Key \notin DOMAIN router THEN \E b : Open(b, w, NoHeaders, 200) /\ t = Refusal(b, 404, 0)
    ELSE IF Unbuildable(router[Key])
         THEN \E b : Open(b, w, NoHeaders, 200) /\ t = Refusal(b, 500, 1)
         ELSE \E i : /\ FirstStop(router[Key], script, i)
                     /\ Left(router[Key], script, i) =>
                           \E b : /\ Open(b, w, HeadersAt(router[Key], i), 200)
                                  /\ t = Told(b, router[Key], script, i)

\* A request that has not got to a chain.
Missed ==
    /\ pc \in {"last", "done"}
    /\ Key \in DOMAIN router => Unbuildable(router[Key])
    /\ pc = "last" => /\ Key \in DOMAIN router /\ logged = 0
                      /\ \E b : Begun(b, NoHeaders) /\ res = Throws(b, "error")

\* A request that has turned back where its chain stops it.
Turned ==
    /\ FirstStop(handler, script, at) /\ ~Unbuildable(handler)
    /\ handler.chain[at] = "backend" =>
          passed.called /\ (script.handler = "opensSession" => res.cookie # "none")
    /\ Left(handler, script, at) =>
          /\ pc # "last"
          /\ pc \in {"up", "error"} =>
                \E b : /\ Begun(b, HeadersAt(handler, at))
                       /\ pc = "up" => /\ res = ResponseAt(b, handler, script, at)
                                       /\ value = ValueAt(handler, script, at)
                       /\ pc = "error" => res = Returned(b, handler, script, at) /\ ~Quiet(res)

\* What GET and HEAD have in common.
Course ==
    method \in {"GET", "HEAD"} =>
       /\ pc = "down" => ~Unbuildable(handler) /\ \A n \in 1..(at - 1) : ~Stops(handler, script, n)
       /\ pc \in {"up", "error", "last", "done"} => IF at = 0 THEN Missed ELSE Turned
       /\ pc = "done" => \A w \in BOOLEAN : (w <=> method = "HEAD") => Recalls(Result, w)

\* What was told of GET before HEAD was asked.
Remembered == method = "HEAD" /\ pc # "idle" => Recalls(before[1], FALSE)

\* A handler for OPTIONS has answered; nothing is written after it.
Optioned ==
    passed.called /\ handler.answersOptions =>
        /\ ~res.wrapped /\ res.head /\ res.wire.ended
        /\ res.wire.headers["allow"] = AllowHeader

\* The handlers that CorsExtension has made are for OPTIONS alone.
OptionsOnly ==
    phase # "failed" => \A k \in DOMAIN router : router[k].answersOptions => k[1] = "OPTIONS"

FollowInv == Reaching /\ Course /\ Remembered /\ Optioned

\* A request for GET or HEAD has a handler that leaves the answer to the pipeline.
LEMMA NoOptions ==
    ASSUME Reaching, OptionsOnly, pc # "idle", at > 0, method \in {"GET", "HEAD"}
    PROVE  ~handler.answersOptions /\ handler = router[Key] /\ Key \in DOMAIN router
<1>1. Served = "GET" /\ phase # "failed"
  BY DEF Served, Reaching
<1>2. Key \in DOMAIN router /\ handler = router[Key]
  BY <1>1 DEF Key, Reaching
<1>3. ~handler.answersOptions
  <2>1. Key[1] # "OPTIONS"
    BY DEF Key
  <2> QED
    BY <1>1, <1>2, <2>1 DEF OptionsOnly
<1> QED
  BY <1>2, <1>3

\* The headers grow where the chain has the interceptor of CORS.
LEMMA HeadersOn ==
    ASSUME NEW h, NEW i \in Nat, i > 0
    PROVE  /\ HeadersAt(h, i) \in {NoHeaders, Header("access", "all")}
           /\ HeadersAt(h, i + 1) = IF h.chain[i] = "cors" THEN Header("access", "all")
                                    ELSE HeadersAt(h, i)
           /\ HeadersAt(h, 1) = NoHeaders
           /\ Over(Header("access", "all"), HeadersAt(h, i)) = Header("access", "all")
<1>1. HeadersAt(h, i) \in {NoHeaders, Header("access", "all")}
  BY DEF HeadersAt
<1>2. HeadersAt(h, i + 1) = IF h.chain[i] = "cors" THEN Header("access", "all")
                            ELSE HeadersAt(h, i)
  <2>1. 1..((i + 1) - 1) = 1..(i - 1) \union {i}
    OBVIOUS
  <2>2. CASE h.chain[i] = "cors"
    BY <2>1, <2>2 DEF HeadersAt
  <2>3. CASE h.chain[i] # "cors"
    <3>1. (\E n \in 1..((i + 1) - 1) : h.chain[n] = "cors")
             <=> \E n \in 1..(i - 1) : h.chain[n] = "cors"
      BY <2>1, <2>3
    <3> QED
      BY <2>3, <3>1 DEF HeadersAt
  <2> QED
    BY <2>2, <2>3
<1>3. HeadersAt(h, 1) = NoHeaders
  BY DEF HeadersAt
<1>4. ASSUME NEW f, f \in {NoHeaders, Header("access", "all")}
      PROVE  Over(Header("access", "all"), f) = Header("access", "all")
  <2> PICK a : a = Header("access", "all")
    OBVIOUS
  <2>1. Table(NoHeaders)
    BY DEF Table, NoHeaders
  <2>2. DOMAIN a = {"access"} /\ DOMAIN NoHeaders = {} /\ Table(a)
    BY <2>1, OverIs
  <2>3. DOMAIN a \union DOMAIN f = DOMAIN a
    BY <1>4, <2>2
  <2>4. Over(a, f) = [n \in DOMAIN a |-> a[n]]
    BY <2>3 DEF Over
  <2> QED
    BY <2>2, <2>4 DEF Table
<1> QED
  BY <1>1, <1>2, <1>3, <1>4

\* What is told of a request before stays while the request goes on.
LEMMA RecallsStay ==
    ASSUME UNCHANGED <<path, script, router>>, NEW t, NEW w
    PROVE  Recalls(t, w)' <=> Recalls(t, w)
<1>1. Key' = Key
  BY DEF Key
<1>2. \A h : Unbuildable(h)' <=> Unbuildable(h)
  BY DEF Unbuildable
<1>3. PICK k : k = Key
  OBVIOUS
<1>4. Unbuildable(router[Key])' <=> Unbuildable(router[Key])
  BY <1>1, <1>2
<1> QED
  BY <1>1, <1>4 DEF Recalls

\* What was told of GET is not changed by what comes later.
LEMMA RememberedStays ==
    ASSUME Remembered, pc # "idle", UNCHANGED <<method, path, script, router, before>>
    PROVE  Remembered'
<1>1. PICK t : t = before[1]
  OBVIOUS
<1>2. Recalls(t, FALSE)' <=> Recalls(t, FALSE)
  BY RecallsStay
<1> QED
  BY <1>1, <1>2 DEF Remembered

-----------------------------------------------------------------------------
(* Down the chain.                                                          *)

\* A request that goes on, or stays, has not been stopped.
LEMMA GoesOn ==
    ASSUME RequestInv, FollowInv, pc = "down", pc' = "down",
           UNCHANGED <<routesVars, method, path, script, handler, before, passed>>,
           \/ at' = at /\ res' = res
           \/ /\ at' = at + 1 /\ Begun(res', HeadersAt(handler, at + 1))
              /\ method \in {"GET", "HEAD"} => ~Stops(handler, script, at)
    PROVE  FollowInv'
<1>1. at \in Nat /\ at > 0 /\ ~passed.called
  BY DownIs DEF RequestInv, RequestTypes
<1>2. router' = router /\ phase' = phase /\ Served' = Served
  BY DEF routesVars, Served
<1>3. Reaching'
  <2>1. Begun(res, HeadersAt(handler, at)) /\ phase = "serving" /\ script \in Scripts
        /\ <<Served, path>> \in DOMAIN router /\ handler = router[<<Served, path>>]
    BY <1>1 DEF FollowInv, Reaching
  <2>2. Begun(res, HeadersAt(handler, at))'
    BY <2>1 DEF Begun
  <2> QED
    BY <1>1, <1>2, <2>1, <2>2 DEF Reaching
<1>4. Course'
  <2> SUFFICES ASSUME method \in {"GET", "HEAD"}
               PROVE  ~Unbuildable(handler)' /\ \A n \in 1..(at' - 1) : ~Stops(handler, script, n)
    BY DEF Course
  <2>1. ~Unbuildable(handler) /\ \A n \in 1..(at - 1) : ~Stops(handler, script, n)
    BY DEF FollowInv, Course
  <2>2. ~Unbuildable(handler)'
    BY <2>1 DEF Unbuildable
  <2>3. CASE at' = at
    BY <2>1, <2>2, <2>3
  <2>4. CASE at' = at + 1 /\ ~Stops(handler, script, at)
    <3>1. \A n \in 1..(at' - 1) : n \in 1..(at - 1) \/ n = at
      BY <1>1, <2>4
    <3> QED
      BY <2>1, <2>2, <2>4, <3>1
  <2> QED
    BY <2>3, <2>4
<1>5. Remembered'
  BY <1>2, RememberedStays DEF FollowInv
<1>6. Optioned'
  BY <1>1 DEF Optioned
<1> QED
  BY <1>3, <1>4, <1>5, <1>6 DEF FollowInv

\* A request that turns back does so where its chain stops it.
LEMMA TurnsBackAt ==
    ASSUME RequestInv, FollowInv, OptionsOnly, pc = "down", pc' \in {"up", "error"}, at' = at,
           UNCHANGED <<routesVars, method, path, script, handler, before>>,
           method \in {"GET", "HEAD"} =>
              /\ Stops(handler, script, at)
              /\ handler.chain[at] = "backend" =>
                    passed'.called /\ (script.handler = "opensSession" => res'.cookie # "none")
              /\ Left(handler, script, at) =>
                    /\ res' = ResponseAt(res, handler, script, at)
                    /\ pc' = "up" => value' = ValueAt(handler, script, at)
                    /\ pc' = "error" => ~Quiet(res'),
           Optioned'
    PROVE  FollowInv'
<1>1. at \in Nat /\ at > 0 /\ at \in DOMAIN handler.chain
  BY DownIs DEF RequestInv, RequestTypes
<1>2. router' = router /\ phase' = phase /\ Served' = Served
  BY DEF routesVars, Served
<1>3. Begun(res, HeadersAt(handler, at)) /\ phase = "serving" /\ script \in Scripts
      /\ <<Served, path>> \in DOMAIN router /\ handler = router[<<Served, path>>]
  BY <1>1 DEF FollowInv, Reaching
<1>4. Reaching'
  BY <1>1, <1>2, <1>3 DEF Reaching
<1>5. Course'
  <2> SUFFICES ASSUME method \in {"GET", "HEAD"} PROVE Turned'
    BY <1>1 DEF Course
  <2>1. ~Unbuildable(handler) /\ FirstStop(handler, script, at)
    BY <1>1 DEF FollowInv, Course, FirstStop
  <2>2. ~Unbuildable(handler)'
    BY <2>1 DEF Unbuildable
  <2>3. ASSUME Left(handler, script, at)
        PROVE  \E b : /\ Begun(b, HeadersAt(handler, at))'
                      /\ pc' = "up" => /\ res' = ResponseAt(b, handler, script, at)
                                       /\ value' = ValueAt(handler, script, at)
                      /\ pc' = "error" => res' = Returned(b, handler, script, at) /\ ~Quiet(res')
    <3> PICK b : b = res
      OBVIOUS
    <3>1. Begun(b, HeadersAt(handler, at))'
      BY <1>3 DEF Begun
    <3>2. res' = ResponseAt(b, handler, script, at)
      BY <2>3
    <3>3. ASSUME pc' = "error"
          PROVE  res' = Returned(b, handler, script, at) /\ ~Quiet(res')
      BY <2>3, <3>2, <3>3 DEF Returned
    <3> QED
      BY <2>3, <3>1, <3>2, <3>3
  <2> QED
    BY <2>1, <2>2, <2>3 DEF Turned
<1>6. Remembered'
  BY <1>2, RememberedStays DEF FollowInv
<1> QED
  BY <1>4, <1>5, <1>6 DEF FollowInv

\* HttpFrontend, and the guards that let the request pass.
LEMMA BeforeFollows == ASSUME RequestInv, FollowInv, Before PROVE FollowInv'
<1>1. At("frontend")
  BY DEF Before
<1>2. /\ pc = "down" /\ handler.chain[at] = "frontend" /\ UNCHANGED routesVars /\ at > 0
  BY <1>1, AtIs
<1>3. /\ pc' = "down" /\ at' = at + 1
      /\ UNCHANGED <<method, path, script, handler, res, passed, before>>
  BY DEF Before, Forward
<1>4. at \in Nat /\ Begun(res, HeadersAt(handler, at))
  BY <1>2 DEF RequestInv, RequestTypes, FollowInv, Reaching
<1>5. HeadersAt(handler, at + 1) = HeadersAt(handler, at)
  BY <1>2, <1>4, HeadersOn
<1>6. ~Stops(handler, script, at)
  BY <1>2 DEF Stops
<1> QED
  BY <1>2, <1>3, <1>4, <1>5, <1>6, GoesOn

\* A guard lets the request pass.
LEMMA GuardPassesFollows == ASSUME RequestInv, FollowInv, GuardPasses PROVE FollowInv'
<1>1. At("guards")
  BY DEF GuardPasses
<1>2. /\ pc = "down" /\ handler.chain[at] = "guards" /\ UNCHANGED routesVars /\ at > 0
  BY <1>1, AtIs
<1>3. /\ pc' = "down" /\ UNCHANGED <<method, path, script, handler, res, passed, before>>
  BY <1>2 DEF GuardPasses, Forward
<1>4. at \in Nat /\ Begun(res, HeadersAt(handler, at))
  BY <1>2 DEF RequestInv, RequestTypes, FollowInv, Reaching
<1>5. HeadersAt(handler, at + 1) = HeadersAt(handler, at)
  BY <1>2, <1>4, HeadersOn
<1>6. CASE allowed' = handler.guards
  <2>1. at' = at + 1 /\ script.guard = "true"
    <3>1. at' = at + 1 /\ allowed' = allowed + 1 /\ GuardSays = "true"
      BY <1>6 DEF GuardPasses, Forward
    <3>2. allowed \in Nat
      BY DEF RequestInv, RequestTypes
    <3> QED
      BY <1>6, <3>1, <3>2 DEF GuardSays
  <2>2. ~Stops(handler, script, at)
    BY <1>2, <2>1 DEF Stops
  <2> QED
    BY <1>2, <1>3, <1>4, <1>5, <2>1, <2>2, GoesOn
<1>7. CASE allowed' # handler.guards
  <2>1. at' = at
    BY <1>7 DEF GuardPasses
  <2> QED
    BY <1>2, <1>3, <2>1, GoesOn
<1> QED
  BY <1>6, <1>7

\* SessionCookie's hook adds nothing while no session is opened.
LEMMA SessionFollows == ASSUME RequestInv, FollowInv, Session PROVE FollowInv'
<1>1. At("session")
  BY DEF Session
<1>2. /\ pc = "down" /\ handler.chain[at] = "session" /\ UNCHANGED routesVars /\ at > 0
      /\ Quiet(res) /\ Shape(res)
  BY <1>1, AtIs
<1>3. PICK r : r = [res EXCEPT !.hooked = TRUE]
  OBVIOUS
<1>4. /\ pc' = "down" /\ at' = at + 1 /\ res' = r
      /\ UNCHANGED <<method, path, script, handler, passed, before>>
  <2>1. Quiet(r)
    BY <1>2, <1>3 DEF Quiet, Shape
  <2> QED
    BY <1>3, <2>1 DEF Session, Then
<1>5. at \in Nat /\ Begun(res, HeadersAt(handler, at))
  BY <1>2 DEF RequestInv, RequestTypes, FollowInv, Reaching
<1>6. HeadersAt(handler, at + 1) = HeadersAt(handler, at)
  BY <1>2, <1>5, HeadersOn
<1>7. Begun(r, HeadersAt(handler, at))
  <2>1. PICK w \in BOOLEAN : (w <=> method = "HEAD") /\ Open(res, w, HeadersAt(handler, at), 200)
    BY <1>5 DEF Begun
  <2> PICK own : own = HeadersAt(handler, at)
    OBVIOUS
  <2>2. Open(res, w, own, 200)
    BY <2>1
  <2>3. /\ DOMAIN r = DOMAIN res /\ r.wrapped = res.wrapped /\ r.head = res.head
        /\ r.own = res.own /\ r.status = res.status /\ r.chunked = res.chunked
        /\ r.cookie = res.cookie /\ r.threw = res.threw /\ r.wire = res.wire
    BY <1>2, <1>3 DEF Shape
  <2>4. Open(r, w, own, 200)
    BY <2>2, <2>3 DEF Open, Shape, Quiet
  <2> QED
    BY <2>1, <2>4 DEF Begun
<1>8. ~Stops(handler, script, at)
  BY <1>2 DEF Stops
<1> QED
  BY <1>2, <1>4, <1>5, <1>6, <1>7, <1>8, GoesOn

\* The interceptor of CORS adds its header; a preflight request is not one of these.
LEMMA CorsFollows == ASSUME RequestInv, FollowInv, OptionsOnly, Cors PROVE FollowInv'
<1>1. At("cors")
  BY DEF Cors
<1>2. /\ pc = "down" /\ handler.chain[at] = "cors" /\ UNCHANGED routesVars /\ at > 0
      /\ ~passed.called
  BY <1>1, AtIs
<1>3. UNCHANGED <<method, path, script, handler, passed, before>>
  BY DEF Cors
<1>4. at \in Nat /\ Begun(res, HeadersAt(handler, at))
  BY <1>2 DEF RequestInv, RequestTypes, FollowInv, Reaching
<1> PICK r : r = SetHeader(res, "access", "all")
  OBVIOUS
<1>5. CASE Then(r, "down") /\ at' = at + 1
  <2>1. PICK w \in BOOLEAN : (w <=> method = "HEAD") /\ Open(res, w, HeadersAt(handler, at), 200)
    BY <1>4 DEF Begun
  <2> PICK own : own = HeadersAt(handler, at)
    OBVIOUS
  <2>2. Open(r, w, Over(Header("access", "all"), own), 200)
    BY <2>1, OpenHeader
  <2>3. Over(Header("access", "all"), own) = HeadersAt(handler, at + 1)
    BY <1>2, <1>4, HeadersOn
  <2>4. Begun(r, HeadersAt(handler, at + 1)) /\ Quiet(r)
    <3> PICK more : more = Over(Header("access", "all"), own)
      OBVIOUS
    <3>1. Open(r, w, more, 200) /\ more = HeadersAt(handler, at + 1)
      BY <2>2, <2>3
    <3>2. Quiet(r)
      BY <3>1 DEF Open
    <3> QED
      BY <2>1, <3>1, <3>2 DEF Begun
  <2>5. res' = r /\ pc' = "down"
    BY <1>5, <2>4 DEF Then
  <2>6. ~Stops(handler, script, at)
    BY <1>2 DEF Stops
  <2> QED
    BY <1>2, <1>3, <1>5, <2>4, <2>5, <2>6, GoesOn
<1>6. CASE method = "OPTIONS" /\ pc' \in {"up", "error"} /\ at' = at
  <2>1. Optioned'
    BY <1>2, <1>3 DEF Optioned
  <2> QED
    BY <1>2, <1>3, <1>6, <2>1, TurnsBackAt
<1> QED
  BY <1>5, <1>6 DEF Cors, Then

\* A guard that refuses or throws, a body that cannot be parsed, an interceptor of
\* the route that does not call the next one: the request turns back.
LEMMA GuardRefusesFollows ==
    ASSUME RequestInv, FollowInv, OptionsOnly, GuardRefuses PROVE FollowInv'
<1>1. At("guards")
  BY DEF GuardRefuses
<1>2. /\ pc = "down" /\ handler.chain[at] = "guards" /\ UNCHANGED routesVars /\ at > 0
      /\ ~passed.called
  BY <1>1, AtIs
<1>3. UNCHANGED <<method, path, script, handler, at, passed, before>>
  BY DEF GuardRefuses
<1>4. GuardSays = script.guard /\ script.guard \in {"false", "response"}
  BY DEF GuardRefuses, GuardSays
<1>5. /\ res' = ResponseAt(res, handler, script, at)
      /\ value' = ValueAt(handler, script, at)
      /\ pc' = IF Quiet(res') THEN "up" ELSE "error"
  <2>1. CASE script.guard = "false"
    <3>1. /\ ResponseAt(res, handler, script, at) = End(SetStatus(res, 401), "empty")
          /\ ValueAt(handler, script, at) = "nothing"
      BY <1>2, <2>1 DEF ResponseAt, ValueAt
    <3>2. /\ res' = End(SetStatus(res, 401), "empty") /\ value' = "nothing"
          /\ pc' = IF Quiet(res') THEN "up" ELSE "error"
      BY <1>4, <2>1 DEF GuardRefuses, Then
    <3> QED
      BY <3>1, <3>2
  <2>2. CASE script.guard = "response"
    <3>1. /\ ResponseAt(res, handler, script, at) = ApplyResponse(res, 403)
          /\ ValueAt(handler, script, at) = "json"
      BY <1>2, <2>2 DEF ResponseAt, ValueAt
    <3>2. /\ res' = ApplyResponse(res, 403) /\ value' = "json"
          /\ pc' = IF Quiet(res') THEN "up" ELSE "error"
      BY <1>4, <2>2 DEF GuardRefuses, Then
    <3> QED
      BY <3>1, <3>2
  <2> QED
    BY <1>4, <2>1, <2>2
<1>6. Stops(handler, script, at)
  BY <1>2, <1>4 DEF Stops
<1>7. Optioned'
  BY <1>2, <1>3 DEF Optioned
<1> QED
  BY <1>2, <1>3, <1>5, <1>6, <1>7, TurnsBackAt

\* What is thrown on the way down.
LEMMA ThrowsFollows ==
    ASSUME RequestInv, FollowInv, OptionsOnly, pc = "down", handler.chain[at] # "backend",
           pc' = "error", res' = Throws(res, "error"), Stops(handler, script, at),
           ResponseAt(res, handler, script, at) = Throws(res, "error"),
           UNCHANGED <<routesVars, method, path, script, handler, at, passed, before>>
    PROVE  FollowInv'
<1>1. Shape(res) /\ ~passed.called
  BY DownIs
<1>2. ~Quiet(res')
  BY <1>1, ThrowsIs DEF Quiet
<1>3. Optioned'
  BY <1>1 DEF Optioned
<1> QED
  BY <1>2, <1>3, TurnsBackAt

\* A guard throws.
LEMMA GuardThrowsFollows ==
    ASSUME RequestInv, FollowInv, OptionsOnly, GuardThrows PROVE FollowInv'
<1>1. At("guards")
  BY DEF GuardThrows
<1>2. pc = "down" /\ handler.chain[at] = "guards" /\ UNCHANGED routesVars /\ Shape(res)
  BY <1>1, AtIs
<1>3. script.guard = "throws"
  BY DEF GuardThrows, GuardSays
<1>4. /\ res' = Throws(res, "error") /\ pc' = "error"
      /\ UNCHANGED <<method, path, script, handler, at, passed, before>>
  BY DEF GuardThrows, Then
<1>5. Stops(handler, script, at)
  BY <1>2, <1>3 DEF Stops
<1>6. ResponseAt(res, handler, script, at) = Throws(res, "error")
  BY <1>2, <1>3 DEF ResponseAt
<1> QED
  BY <1>2, <1>4, <1>5, <1>6, ThrowsFollows

\* The body of the request is parsed, or cannot be.
LEMMA ParseBodyFollows ==
    ASSUME RequestInv, FollowInv, OptionsOnly, ParseBody PROVE FollowInv'
<1>1. At("body")
  BY DEF ParseBody
<1>2. pc = "down" /\ handler.chain[at] = "body" /\ UNCHANGED routesVars /\ at > 0
  BY <1>1, AtIs
<1>3. UNCHANGED <<method, path, script, handler, passed, before>>
  BY DEF ParseBody
<1>4. CASE script.parse = "ok"
  <2>1. pc' = "down" /\ at' = at + 1 /\ res' = res
    BY <1>4 DEF ParseBody, Forward
  <2>2. at \in Nat /\ Begun(res, HeadersAt(handler, at))
    BY <1>2 DEF RequestInv, RequestTypes, FollowInv, Reaching
  <2>3. HeadersAt(handler, at + 1) = HeadersAt(handler, at)
    BY <1>2, <2>2, HeadersOn
  <2>4. ~Stops(handler, script, at)
    BY <1>2, <1>4 DEF Stops
  <2> QED
    BY <1>2, <1>3, <2>1, <2>2, <2>3, <2>4, GoesOn
<1>5. CASE script.parse # "ok"
  <2>1. pc' = "error" /\ res' = Throws(res, "error") /\ at' = at
    BY <1>5 DEF ParseBody, Then
  <2>2. Stops(handler, script, at) /\ ResponseAt(res, handler, script, at) = Throws(res, "error")
    BY <1>2, <1>5 DEF Stops, ResponseAt
  <2> QED
    BY <1>2, <1>3, <2>1, <2>2, ThrowsFollows
<1> QED
  BY <1>4, <1>5

\* The interceptor of the route.
LEMMA OwnInterceptorFollows ==
    ASSUME RequestInv, FollowInv, OptionsOnly, OwnInterceptor PROVE FollowInv'
<1>1. At("own")
  BY DEF OwnInterceptor
<1>2. /\ pc = "down" /\ handler.chain[at] = "own" /\ UNCHANGED routesVars /\ at > 0
      /\ ~passed.called
  BY <1>1, AtIs
<1>3. UNCHANGED <<method, path, script, handler, passed, before>>
  BY DEF OwnInterceptor
<1>4. CASE script.own = "throws"
  <2>1. pc' = "error" /\ res' = Throws(res, "error") /\ at' = at
    BY <1>4 DEF OwnInterceptor, Then
  <2>2. Stops(handler, script, at) /\ ResponseAt(res, handler, script, at) = Throws(res, "error")
    BY <1>2, <1>4 DEF Stops, ResponseAt
  <2> QED
    BY <1>2, <1>3, <2>1, <2>2, ThrowsFollows
<1>5. CASE script.own = "answers"
  <2>1. pc' = "up" /\ res' = res /\ at' = at /\ value' = "text"
    BY <1>5 DEF OwnInterceptor
  <2>2. Stops(handler, script, at)
    BY <1>2, <1>5 DEF Stops
  <2>3. ResponseAt(res, handler, script, at) = res /\ ValueAt(handler, script, at) = "text"
    BY <1>2, <1>5 DEF ResponseAt, ValueAt
  <2>4. Optioned'
    BY <1>2, <1>3 DEF Optioned
  <2> QED
    BY <1>2, <1>3, <2>1, <2>2, <2>3, <2>4, TurnsBackAt
<1>6. CASE script.own \notin {"answers", "throws"}
  <2>1. pc' = "down" /\ at' = at + 1 /\ res' = res
    BY <1>6 DEF OwnInterceptor, Forward
  <2>2. at \in Nat /\ Begun(res, HeadersAt(handler, at))
    BY <1>2 DEF RequestInv, RequestTypes, FollowInv, Reaching
  <2>3. HeadersAt(handler, at + 1) = HeadersAt(handler, at)
    BY <1>2, <2>2, HeadersOn
  <2>4. ~Stops(handler, script, at)
    BY <1>2, <1>6 DEF Stops
  <2> QED
    BY <1>2, <1>3, <2>1, <2>2, <2>3, <2>4, GoesOn
<1> QED
  BY <1>4, <1>5, <1>6

\* The controller leaves the answer to the pipeline, or it is one for OPTIONS.
LEMMA ControllerFollows ==
    ASSUME RequestInv, FollowInv, OptionsOnly, Controller PROVE FollowInv'
<1>1. At("backend")
  BY DEF Controller
<1>2. /\ pc = "down" /\ handler.chain[at] = "backend" /\ UNCHANGED routesVars /\ at > 0
      /\ Shape(res) /\ Quiet(res) /\ phase = "serving"
  BY <1>1, AtIs DEF At, Serving
<1>3. UNCHANGED <<method, path, script, handler, at, before>>
  BY DEF Controller
<1>4. /\ Begun(res, HeadersAt(handler, at))
      /\ <<Served, path>> \in DOMAIN router /\ handler = router[<<Served, path>>]
  BY <1>2 DEF FollowInv, Reaching
<1>5. /\ passed'.called /\ res' = ResponseOf(res)
      /\ value' = IF ~handler.answersOptions /\ script.handler \in {"text", "json"}
                  THEN script.handler ELSE "nothing"
      /\ pc' = IF Quiet(res') THEN "up" ELSE "error"
  BY DEF Controller, Then
<1>6. Optioned'
  <2> SUFFICES ASSUME handler.answersOptions
               PROVE  /\ ~res'.wrapped /\ res'.head /\ res'.wire.ended
                      /\ res'.wire.headers["allow"] = AllowHeader'
    BY <1>3 DEF Optioned
  <2>1. method # "HEAD"
    <3>1. <<Served, path>>[1] = "OPTIONS"
      BY <1>2, <1>4 DEF OptionsOnly
    <3> QED
      BY <3>1 DEF Served
  <2>2. PICK own : own = HeadersAt(handler, at)
    OBVIOUS
  <2>3. PICK w \in BOOLEAN : ~w /\ Open(res, w, own, 200)
    BY <1>4, <2>1, <2>2 DEF Begun
  <2> PICK names : names = AllowHeader
    OBVIOUS
  <2> PICK s : s = SetStatus(res, 204)
    OBVIOUS
  <2> PICK r : r = SetHeader(s, "allow", names)
    OBVIOUS
  <2> PICK hs : hs = Over(Header("allow", names), own)
    OBVIOUS
  <2>4. Open(s, w, own, 204)
    BY <2>3, OpenStatus
  <2>5. Open(r, w, hs, 204)
    BY <2>4, OpenHeader
  <2>6. Sent(End(r, "empty"), w, hs, 204, "empty")
    BY <2>5, OpenEnd
  <2>7. res' = End(r, "empty")
    BY <1>5 DEF ResponseOf
  <2>8. hs["allow"] = names
    BY DEF Over, Header
  <2>9. AllowHeader' = names
    BY <1>2, <1>3 DEF AllowHeader, routesVars
  <2> QED
    BY <2>3, <2>6, <2>7, <2>8, <2>9 DEF Sent
<1>7. ASSUME method \in {"GET", "HEAD"}
      PROVE  /\ Stops(handler, script, at)
             /\ script.handler = "opensSession" => res'.cookie # "none"
             /\ Left(handler, script, at) =>
                    /\ res' = ResponseAt(res, handler, script, at)
                    /\ value' = ValueAt(handler, script, at)
  <2>1. ~handler.answersOptions
    BY <1>2, <1>7, NoOptions DEF FollowInv
  <2>2. Stops(handler, script, at)
    BY <1>2 DEF Stops
  <2>3. ASSUME script.handler = "opensSession" PROVE res'.cookie # "none"
    <3>1. res' = [res EXCEPT !.hooked = TRUE, !.cookie = "id"]
      BY <1>5, <2>1, <2>3 DEF ResponseOf
    <3> QED
      BY <1>2, <3>1 DEF Shape
  <2>4. ASSUME Left(handler, script, at)
        PROVE  /\ res' = ResponseAt(res, handler, script, at)
               /\ value' = ValueAt(handler, script, at)
    <3>1. script.handler \in {"text", "json", "nothing", "setsType", "throws"}
      BY <1>2, <2>4 DEF Left
    <3>2. res' = ResponseAt(res, handler, script, at)
      <4>1. CASE script.handler = "setsType"
        BY <1>2, <1>5, <2>1, <4>1 DEF ResponseOf, ResponseAt
      <4>2. CASE script.handler = "throws"
        BY <1>2, <1>5, <2>1, <4>2 DEF ResponseOf, ResponseAt
      <4>3. CASE script.handler \in {"text", "json", "nothing"}
        BY <1>2, <1>5, <2>1, <4>3 DEF ResponseOf, ResponseAt
      <4> QED
        BY <3>1, <4>1, <4>2, <4>3
    <3>3. value' = ValueAt(handler, script, at)
      BY <1>2, <1>5, <2>1, <3>1 DEF ValueAt
    <3> QED
      BY <3>2, <3>3
  <2> QED
    BY <2>2, <2>3, <2>4
<1> QED
  BY <1>2, <1>3, <1>5, <1>6, <1>7, TurnsBackAt

-----------------------------------------------------------------------------
(* The ends of a request.                                                   *)

\* Nothing that is done to a response after the controller takes the cookie of a
\* session away.
LEMMA CookieStays ==
    ASSUME NEW r, Shape(r), NEW n, NEW v
    PROVE  /\ Throws(r, v).cookie = r.cookie
           /\ SetStatus(r, v).cookie = r.cookie
           /\ Shape(SetHeader(r, n, v)) /\ SetHeader(r, n, v).cookie = r.cookie
           /\ Weak(r) /\ Quiet(r) => End(r, v).cookie = r.cookie
<1>1. \A x : Throws(r, x).cookie = r.cookie
  BY DEF Throws, Shape
<1>2. SetStatus(r, v).cookie = r.cookie
  BY DEF SetStatus, Shape
<1>3. \A m, x : Shape(SetHeader(r, m, x)) /\ SetHeader(r, m, x).cookie = r.cookie
  <2> SUFFICES ASSUME NEW m, NEW x
               PROVE  Shape(SetHeader(r, m, x)) /\ SetHeader(r, m, x).cookie = r.cookie
    OBVIOUS
  <2>1. Shape(SetHeader(r, m, x))
    BY SetHeaderIs
  <2> PICK f : f = Over(Header(m, x), r.own)
    OBVIOUS
  <2> PICK g : g = Over(Header(m, x), r.wire.headers)
    OBVIOUS
  <2>2. PICK set : set = [r EXCEPT !.own = f]
    OBVIOUS
  <2>3. set.cookie = r.cookie /\ set.wire = r.wire /\ DOMAIN set = DOMAIN r
    BY <2>2 DEF Shape
  <2>4. \/ SetHeader(r, m, x) \in {r, set, Throws(r, "headersSent"), Throws(set, "headersSent")}
        \/ SetHeader(r, m, x) = [set EXCEPT !.wire.headers = g]
    BY <2>2, <2>3 DEF SetHeader
  <2>5. /\ Throws(set, "headersSent").cookie = r.cookie
        /\ [set EXCEPT !.wire.headers = g].cookie = r.cookie
    BY <2>3 DEF Throws, Shape
  <2> QED
    BY <1>1, <2>1, <2>3, <2>4, <2>5
<1>4. ASSUME Weak(r), Quiet(r) PROVE End(r, v).cookie = r.cookie
  <2>1. ASSUME NEW s, Shape(s), NEW l PROVE Closed(s, l).cookie = s.cookie
    BY <2>1 DEF Closed, Shape
  <2>2. ASSUME NEW s, Shape(s), NEW st, NEW hs PROVE Flushed(s, st, hs).cookie = s.cookie
    BY <2>2 DEF Flushed, Shape
  <2>3. CASE r.wrapped
    <3>1. CASE r.wire.sent
      <4>1. End(r, v) = [r EXCEPT !.wire.ended = TRUE]
        BY <1>4, <2>3, <3>1 DEF End, EndWrapper
      <4> QED
        BY <4>1 DEF Shape
    <3>2. CASE ~r.wire.sent
      <4> PICK hs : hs = Over(r.own, r.wire.headers)
        OBVIOUS
      <4> PICK f : f = Flushed(r, r.status, hs)
        OBVIOUS
      <4> PICK l : l = IF r.chunked THEN "chunked" ELSE v
        OBVIOUS
      <4>1. End(r, v) = Closed(f, l)
        BY <1>4, <2>3, <3>2 DEF End, EndWrapper
      <4>2. Shape(f) /\ f.cookie = r.cookie
        BY <2>2, FlushedIs DEF Shape
      <4> QED
        BY <2>1, <4>1, <4>2
    <3> QED
      BY <3>1, <3>2
  <2>4. CASE ~r.wrapped
    <3>1. CASE r.wire.ended
      BY <1>4, <2>4, <3>1 DEF End, EndReal
    <3>2. CASE ~r.wire.ended /\ r.head
      BY <1>4, <2>1, <2>4, <3>2 DEF End, EndReal
    <3>3. CASE ~r.wire.ended /\ ~r.head
      <4>1. ~r.wire.sent
        BY <1>4, <2>4, <3>3 DEF Weak
      <4> PICK h : h = WithCookie(r)
        OBVIOUS
      <4>2. Shape(h) /\ h.cookie = r.cookie
        BY <1>3 DEF WithCookie
      <4> PICK hs : hs = Over(NoHeaders, h.own)
        OBVIOUS
      <4>3. PICK made : made = [[h EXCEPT !.status = r.status, !.head = TRUE] EXCEPT !.own = hs]
        OBVIOUS
      <4>4. Shape(made) /\ made.cookie = r.cookie
        BY <4>2, <4>3 DEF Shape
      <4> PICK f : f = Flushed(made, r.status, hs)
        OBVIOUS
      <4>5. WriteHead(r, r.status, NoHeaders) = f
        BY <1>4, <2>4, <3>3, <4>3 DEF WriteHead
      <4>6. End(r, v) = Closed(f, v)
        BY <1>4, <2>4, <3>3, <4>5 DEF End, EndReal
      <4>7. Shape(f) /\ f.cookie = r.cookie
        <5>1. r.status \in Nat
          BY DEF Shape
        <5> QED
          BY <2>2, <4>4, <5>1, FlushedIs
      <4> QED
        BY <2>1, <4>6, <4>7
    <3> QED
      BY <3>1, <3>2, <3>3
  <2> QED
    BY <2>3, <2>4
<1> QED
  BY <1>1, <1>2, <1>3, <1>4

\* A request for GET or HEAD comes nearer to its end: what is told of it is what
\* its chain tells, if user code has left the answer to the pipeline.
LEMMA NearsItsEnd ==
    ASSUME RequestInv, FollowInv, pc \in {"up", "error", "last"},
           pc' \in {"error", "last", "done"}, Optioned',
           UNCHANGED <<routesVars, method, path, script, handler, at, passed, before>>,
           method \in {"GET", "HEAD"} =>
              IF at = 0
              THEN pc' = "done" /\ \E b : Begun(b, NoHeaders) /\ Result' = Refusal(b, 500, 1)
              ELSE /\ res.cookie # "none" => res'.cookie # "none"
                   /\ Left(handler, script, at) =>
                         /\ pc' # "last"
                         /\ \E b : /\ Begun(b, HeadersAt(handler, at))
                                   /\ pc' = "error" => /\ res' = Returned(b, handler, script, at)
                                                       /\ ~Quiet(res')
                                   /\ pc' = "done" => Result' = Told(b, handler, script, at)
    PROVE  FollowInv'
<1>1. router' = router /\ phase' = phase /\ Served' = Served /\ Key' = Key
  BY DEF routesVars, Served, Key
<1>2. /\ phase = "serving" /\ script \in Scripts /\ at \in Nat
      /\ at > 0 => <<Served, path>> \in DOMAIN router /\ handler = router[<<Served, path>>]
  BY DEF FollowInv, Reaching, RequestInv, RequestTypes
<1>3. Reaching'
  BY <1>1, <1>2 DEF Reaching
<1>4. Remembered'
  BY <1>1, RememberedStays DEF FollowInv
<1>5. \A b, own : Begun(b, own)' <=> Begun(b, own)
  BY DEF Begun
<1>6. \A h : Unbuildable(h)' <=> Unbuildable(h)
  BY DEF Unbuildable
<1>7. Course'
  <2> SUFFICES ASSUME method \in {"GET", "HEAD"}
               PROVE  /\ IF at = 0 THEN Missed' ELSE Turned'
                      /\ pc' = "done" =>
                            \A w \in BOOLEAN : (w <=> method = "HEAD") => Recalls(Result, w)'
    BY DEF Course
  <2>1. CASE at = 0
    <3>1. Missed
      BY <2>1 DEF FollowInv, Course
    <3>2. Key \in DOMAIN router /\ Unbuildable(router[Key])
      BY <3>1 DEF Missed
    <3>3. Unbuildable(router[Key])'
      BY <1>1, <1>6, <3>2
    <3>4. PICK b : Begun(b, NoHeaders) /\ Result' = Refusal(b, 500, 1)
      BY <2>1
    <3>5. pc' = "done"
      BY <2>1
    <3>6. Missed'
      BY <3>3, <3>5 DEF Missed
    <3>7. ASSUME NEW w \in BOOLEAN, w <=> method = "HEAD" PROVE Recalls(Result, w)'
      <4>1. Open(b, w, NoHeaders, 200)
        BY <3>4, <3>7 DEF Begun
      <4>2. Key' \in DOMAIN router' /\ Unbuildable(router[Key])'
        BY <1>1, <3>2, <3>3
      <4> QED
        BY <3>4, <4>1, <4>2 DEF Recalls
    <3> QED
      BY <2>1, <3>6, <3>7
  <2>2. CASE at # 0
    <3>1. Turned /\ at > 0
      BY <1>2, <2>2 DEF FollowInv, Course
    <3>2. Key \in DOMAIN router /\ handler = router[Key]
      BY <1>2, <3>1 DEF Key, Served
    <3>3. ~Unbuildable(handler)' /\ ~Unbuildable(router[Key])'
      BY <1>1, <1>6, <3>1, <3>2 DEF Turned
    <3>4. FirstStop(handler, script, at)
      BY <3>1 DEF Turned
    <3>5. Turned'
      <4>1. handler.chain[at] = "backend" =>
              passed.called /\ (script.handler = "opensSession" => res'.cookie # "none")
        BY <2>2, <3>1 DEF Turned
      <4>2. ASSUME Left(handler, script, at)
            PROVE  /\ pc' # "last"
                   /\ pc' = "error" =>
                        \E b : /\ Begun(b, HeadersAt(handler, at))'
                               /\ res' = Returned(b, handler, script, at) /\ ~Quiet(res')
        <5>1. PICK b : /\ Begun(b, HeadersAt(handler, at))
                       /\ pc' = "error" => /\ res' = Returned(b, handler, script, at)
                                           /\ ~Quiet(res')
          BY <2>2, <4>2
        <5>2. Begun(b, HeadersAt(handler, at))'
          BY <5>1 DEF Begun
        <5> QED
          BY <2>2, <4>2, <5>1, <5>2
      <4> QED
        BY <3>3, <3>4, <4>1, <4>2 DEF Turned
    <3>6. ASSUME pc' = "done", NEW w \in BOOLEAN, w <=> method = "HEAD"
          PROVE  Recalls(Result, w)'
      <4>1. ASSUME Left(handler, script, at)
            PROVE  \E b : /\ Open(b, w, HeadersAt(handler, at), 200)
                          /\ Result' = Told(b, handler, script, at)
        <5>1. PICK b : /\ Begun(b, HeadersAt(handler, at))
                       /\ Result' = Told(b, handler, script, at)
          BY <2>2, <3>6, <4>1
        <5> QED
          BY <3>6, <5>1 DEF Begun
      <4>2. /\ Key' \in DOMAIN router' /\ router'[Key'] = handler /\ script' = script
            /\ ~Unbuildable(router[Key])'
        BY <1>1, <3>2, <3>3
      <4> QED
        BY <3>4, <4>1, <4>2 DEF Recalls
    <3> QED
      BY <2>2, <3>5, <3>6
  <2> QED
    BY <2>1, <2>2
<1> QED
  BY <1>3, <1>4, <1>7 DEF FollowInv

\* The answer of a handler for OPTIONS stays.
LEMMA OptionedStays ==
    ASSUME Optioned, UNCHANGED <<path, allow, handler, passed>>,
           passed.called /\ handler.answersOptions /\ ~res.wrapped /\ res.head /\ res.wire.ended =>
              /\ res'.wrapped = res.wrapped /\ res'.head = res.head /\ res'.wire = res.wire
    PROVE  Optioned'
BY DEF Optioned, AllowHeader

\* On the way back the front end sends the value; an interceptor of the route may
\* throw even now.
LEMMA ReturnFollows ==
    ASSUME RequestInv, FollowInv, Return PROVE FollowInv'
<1>1. /\ pc = "up" /\ UNCHANGED routesVars
      /\ UNCHANGED <<method, path, script, handler, at, passed, before, logged>>
  BY DEF Return, Serving
<1>2. /\ Shape(res) /\ Consistent(res) /\ Quiet(res) /\ logged = 0 /\ at \in Nat
  BY <1>1 DEF RequestInv, RequestTypes, Respond, GoingUp
<1>3. ThrowsAfter <=> ThrowsLate(handler, script, at)
  BY DEF ThrowsAfter, ThrowsLate
<1>4. After(res) = AfterOf(res, value)
  BY DEF After, AfterOf
<1>5. res' = IF ThrowsLate(handler, script, at) THEN Throws(res, "error")
             ELSE AfterOf(res, value)
  BY <1>3, <1>4 DEF Return, Then
<1>6. pc' = IF Quiet(res') THEN "done" ELSE "error"
  BY DEF Return, Then
<1>7. Optioned'
  <2>1. res.head => AfterOf(res, value) = res
    BY DEF AfterOf, HeadersSent
  <2>2. Throws(res, "error").wrapped = res.wrapped /\ Throws(res, "error").head = res.head
        /\ Throws(res, "error").wire = res.wire
    BY <1>2 DEF Throws, Shape
  <2> QED
    BY <1>1, <1>5, <2>1, <2>2, OptionedStays DEF FollowInv, routesVars
<1>8. ASSUME method \in {"GET", "HEAD"}
      PROVE  /\ at # 0
             /\ res.cookie # "none" => res'.cookie # "none"
             /\ Left(handler, script, at) =>
                   \E b : /\ Begun(b, HeadersAt(handler, at))
                          /\ pc' = "error" => /\ res' = Returned(b, handler, script, at)
                                              /\ ~Quiet(res')
                          /\ pc' = "done" => Result' = Told(b, handler, script, at)
  <2>1. IF at = 0 THEN Missed ELSE Turned
    BY <1>1, <1>8 DEF FollowInv, Course
  <2>2. at # 0 /\ Turned
    BY <1>1, <2>1 DEF Missed
  <2>3. res'.cookie = res.cookie
    <3>1. Weak(res)
      BY <1>2 DEF Consistent
    <3>2. ASSUME NEW v PROVE Throws(res, v).cookie = res.cookie /\ End(res, v).cookie = res.cookie
      BY <1>2, <3>1, CookieStays
    <3>3. ASSUME NEW n, NEW v, NEW b
          PROVE  End(SetHeader(res, n, v), b).cookie = res.cookie
      <4> PICK s : s = SetHeader(res, n, v)
        OBVIOUS
      <4>1. Shape(s) /\ Alike(res, s) /\ s.cookie = res.cookie
        BY <1>2, SetHeaderIs, CookieStays
      <4>2. Weak(s)
        BY <3>1, <4>1 DEF Weak, Alike
      <4>3. CASE Quiet(s)
        BY <4>1, <4>2, <4>3, CookieStays
      <4>4. CASE ~Quiet(s)
        BY <4>1, <4>4 DEF End
      <4> QED
        BY <4>3, <4>4
    <3>4. \/ AfterOf(res, value) = res
          \/ \E v : AfterOf(res, value) = Throws(res, v)
          \/ \E v : AfterOf(res, value) = End(res, v)
          \/ \E n, v, b : AfterOf(res, value) = End(SetHeader(res, n, v), b)
      BY DEF AfterOf, SendJson, Send
    <3>5. AfterOf(res, value).cookie = res.cookie
      BY <3>2, <3>3, <3>4
    <3> QED
      BY <1>5, <3>2, <3>5
  <2>4. ASSUME Left(handler, script, at)
        PROVE  \E b : /\ Begun(b, HeadersAt(handler, at))
                      /\ pc' = "error" => /\ res' = Returned(b, handler, script, at)
                                          /\ ~Quiet(res')
                      /\ pc' = "done" => Result' = Told(b, handler, script, at)
    <3>1. PICK b : /\ Begun(b, HeadersAt(handler, at))
                   /\ res = ResponseAt(b, handler, script, at)
                   /\ value = ValueAt(handler, script, at)
      BY <1>1, <2>2, <2>4 DEF Turned
    <3>2. res' = Returned(b, handler, script, at)
      BY <1>2, <1>5, <3>1 DEF Returned
    <3>3. pc' = "done" => Result' = Told(b, handler, script, at)
      <4> SUFFICES ASSUME pc' = "done" PROVE Result' = Told(b, handler, script, at)
        OBVIOUS
      <4>1. Quiet(res') /\ logged' = 0
        BY <1>1, <1>2, <1>6
      <4>2. PICK r : r = Returned(b, handler, script, at)
        OBVIOUS
      <4>3. Quiet(r) /\ res' = r
        BY <3>2, <4>1, <4>2
      <4>4. Answered(b, handler, script, at) = r
        BY <4>2, <4>3 DEF Answered
      <4> QED
        BY <4>1, <4>2, <4>3, <4>4 DEF Result, Told
    <3> QED
      BY <1>6, <3>1, <3>2, <3>3
  <2> QED
    BY <2>2, <2>3, <2>4
<1>9. pc' \in {"error", "done"}
  BY <1>6
<1> QED
  BY <1>1, <1>7, <1>8, <1>9, NearsItsEnd

\* The error handler answers, or fails; it does not fail when user code has left
\* the answer to the pipeline.
LEMMA HandleErrorFollows ==
    ASSUME RequestInv, FollowInv, OptionsOnly, HandleError PROVE FollowInv'
<1>1. /\ pc = "error" /\ UNCHANGED routesVars /\ logged' = logged + 1
      /\ UNCHANGED <<method, path, script, handler, at, passed, before>>
  BY DEF HandleError, Serving
<1>2. /\ Shape(res) /\ Consistent(res) /\ logged = 0 /\ at \in Nat
  BY <1>1 DEF RequestInv, RequestTypes, Respond
<1> PICK code \in Nat : code = StatusOf(res.threw)
  <2>1. script \in Scripts
    BY <1>1 DEF FollowInv, Reaching
  <2> QED
    BY <2>1, ScriptAssumption DEF StatusOf
<1> PICK t : t = Throws(res, "none")
  OBVIOUS
<1> PICK s : s = SetStatus(t, code)
  OBVIOUS
<1>3. res' = ErrorAnswered(t, code) /\ pc' = IF Quiet(res') THEN "done" ELSE "last"
  BY DEF HandleError
<1>4. /\ Shape(s) /\ Consistent(s) /\ Quiet(s) /\ s.head = res.head
      /\ s.wrapped = res.wrapped
  BY <1>2, CaughtIs
<1>5. /\ Shape(t) /\ t.cookie = res.cookie /\ t.wire = res.wire /\ Quiet(t)
      /\ s.cookie = res.cookie /\ s.wire = res.wire
  <2>1. Shape(t) /\ t.cookie = res.cookie /\ t.wire = res.wire /\ Quiet(t)
    BY <1>2 DEF Throws, Shape, Quiet
  <2>2. s.cookie = t.cookie /\ s.wire = t.wire
    BY <2>1 DEF SetStatus, Shape
  <2> QED
    BY <2>1, <2>2
<1>6. res' = IF s.head THEN s
             ELSE End(SetHeader(SetHeader(s, "x-requestId", "id"), "content-type", "json"), "error")
  BY <1>3 DEF ErrorAnswered, HeadersSent, SendJson, Send
<1>7. Optioned'
  BY <1>1, <1>4, <1>5, <1>6, OptionedStays DEF FollowInv, routesVars
<1>8. res'.cookie = res.cookie
  <2>1. CASE s.head
    BY <1>5, <1>6, <2>1
  <2>2. CASE ~s.head
    <3> PICK a : a = SetHeader(s, "x-requestId", "id")
      OBVIOUS
    <3> PICK c : c = SetHeader(a, "content-type", "json")
      OBVIOUS
    <3>1. Shape(a) /\ Alike(s, a) /\ a.cookie = s.cookie
      BY <1>4, SetHeaderIs, CookieStays
    <3>2. Shape(c) /\ Alike(a, c) /\ c.cookie = a.cookie
      BY <3>1, SetHeaderIs, CookieStays
    <3>3. Weak(c)
      BY <1>4, <3>1, <3>2 DEF Consistent, Weak, Alike
    <3>4. res' = End(c, "error")
      BY <1>6, <2>2
    <3>5. CASE Quiet(c)
      BY <1>5, <3>1, <3>2, <3>3, <3>4, <3>5, CookieStays
    <3>6. CASE ~Quiet(c)
      BY <1>5, <3>1, <3>2, <3>4, <3>6 DEF End
    <3> QED
      BY <3>5, <3>6
  <2> QED
    BY <2>1, <2>2
<1>9. ASSUME method \in {"GET", "HEAD"}
      PROVE  /\ at # 0
             /\ Left(handler, script, at) =>
                   /\ pc' = "done"
                   /\ \E b : /\ Begun(b, HeadersAt(handler, at))
                             /\ Result' = Told(b, handler, script, at)
  <2>1. IF at = 0 THEN Missed ELSE Turned
    BY <1>1, <1>9 DEF FollowInv, Course
  <2>2. at > 0 /\ Turned /\ script \in Scripts
    BY <1>1, <1>2, <2>1 DEF Missed, FollowInv, Reaching
  <2>3. ASSUME Left(handler, script, at)
        PROVE  /\ pc' = "done"
               /\ \E b : /\ Begun(b, HeadersAt(handler, at))
                         /\ Result' = Told(b, handler, script, at)
    <3>1. PICK b : /\ Begun(b, HeadersAt(handler, at))
                   /\ res = Returned(b, handler, script, at) /\ ~Quiet(res)
      BY <1>1, <2>2, <2>3 DEF Turned
    <3>2. res' = Answered(b, handler, script, at)
      <4>1. code = StatusFor(script, res.threw)
        BY DEF StatusOf, StatusFor
      <4> QED
        BY <1>3, <3>1, <4>1 DEF Answered
    <3>3. ChainFits(handler)
      BY <2>2 DEF RequestInv, InChain, HandlerFits
    <3> PICK own : own = HeadersAt(handler, at)
      OBVIOUS
    <3>4. own \in {NoHeaders, Header("access", "all")}
      BY <1>2, <2>2, HeadersOn
    <3>5. Quiet(Answered(b, handler, script, at))
      <4>1. PICK w \in BOOLEAN : Open(b, w, own, 200)
        BY <3>1 DEF Begun
      <4>2. FirstStop(handler, script, at)
        BY <2>2 DEF Turned
      <4>3. \E st, hd, length, n : \A v \in BOOLEAN : \A x :
              Open(x, v, own, 200) => Agrees(x, handler, script, at, st, hd, length, n)
        BY <2>2, <2>3, <3>3, <3>4, <4>2, ToldAlike
      <4>4. \E st, hd, length, n : Agrees(b, handler, script, at, st, hd, length, n)
        BY <4>1, <4>3
      <4> QED
        BY <4>4 DEF Agrees
    <3>6. pc' = "done"
      BY <1>3, <3>2, <3>5
    <3>7. Result' = Told(b, handler, script, at)
      <4>1. logged' = 1 /\ ~Quiet(Returned(b, handler, script, at))
        BY <1>1, <1>2, <3>1
      <4>2. res'.wire = Answered(b, handler, script, at).wire
        BY <3>2
      <4> HIDE DEF Answered, Returned
      <4> QED
        BY <4>1, <4>2 DEF Result, Told
    <3> QED
      BY <3>1, <3>6, <3>7
  <2> QED
    BY <1>2, <2>2, <2>3
<1>10. pc' \in {"last", "done"}
  BY <1>3
<1> QED
  BY <1>1, <1>7, <1>8, <1>9, <1>10, NearsItsEnd

\* The last resort: of a request whose chain was not built, or of one that user
\* code has answered.
LEMMA LastResortFollows ==
    ASSUME RequestInv, FollowInv, OptionsOnly, LastResort PROVE FollowInv'
<1>1. /\ pc = "last" /\ pc' = "done" /\ UNCHANGED routesVars /\ logged' = logged + 1
      /\ UNCHANGED <<method, path, script, handler, at, passed, before>>
  BY DEF LastResort, Serving
<1>2. Shape(res) /\ Consistent(res) /\ at \in Nat
  BY <1>1 DEF RequestInv, RequestTypes, Respond
<1> PICK t : t = Throws(res, "none")
  OBVIOUS
<1> PICK s : s = SetStatus(t, 500)
  OBVIOUS
<1>3. res' = End(s, "empty")
  BY DEF LastResort
<1>4. /\ Shape(s) /\ Consistent(s) /\ Weak(s) /\ Quiet(s) /\ s.head = res.head
      /\ s.wrapped = res.wrapped
  BY <1>2, CaughtIs DEF Consistent
<1>5. s.cookie = res.cookie /\ s.wire = res.wire
  <2>1. Shape(t) /\ t.cookie = res.cookie /\ t.wire = res.wire /\ Quiet(t)
    BY <1>2 DEF Throws, Shape, Quiet
  <2>2. s.cookie = t.cookie /\ s.wire = t.wire
    BY <2>1 DEF SetStatus, Shape
  <2> QED
    BY <2>1, <2>2
<1>6. Optioned'
  <2>1. ~res.wrapped /\ res.wire.ended => res' = s
    BY <1>3, <1>4, <1>5 DEF End, EndReal
  <2> QED
    BY <1>1, <1>4, <1>5, <2>1, OptionedStays DEF FollowInv, routesVars
<1>7. res'.cookie = res.cookie
  BY <1>3, <1>4, <1>5, CookieStays
<1>8. ASSUME method \in {"GET", "HEAD"}, at # 0 PROVE ~Left(handler, script, at)
  BY <1>1, <1>8 DEF FollowInv, Course, Turned
<1>9. ASSUME method \in {"GET", "HEAD"}, at = 0
      PROVE  \E b : Begun(b, NoHeaders) /\ Result' = Refusal(b, 500, 1)
  <2>1. Missed
    BY <1>1, <1>9 DEF FollowInv, Course
  <2>2. PICK b : logged = 0 /\ Begun(b, NoHeaders) /\ res = Throws(b, "error")
    BY <1>1, <2>1 DEF Missed
  <2>3. PICK w \in BOOLEAN : (w <=> method = "HEAD") /\ Open(b, w, NoHeaders, 200)
    BY <2>2 DEF Begun
  <2>4. Open(t, w, NoHeaders, 200)
    BY <2>2, <2>3, OpenCaught
  <2>5. Begun(t, NoHeaders)
    BY <2>3, <2>4 DEF Begun
  <2>6. Result' = Refusal(t, 500, 1)
    BY <1>1, <1>3, <2>2 DEF Result, Refusal
  <2> QED
    BY <2>5, <2>6
<1> QED
  BY <1>1, <1>6, <1>7, <1>8, <1>9, NearsItsEnd

-----------------------------------------------------------------------------
(* The beginning of a request, and every step.                              *)

\* A response that is new.
LEMMA OpenNew == ASSUME NEW w \in BOOLEAN PROVE Open(NewResponse(w), w, NoHeaders, 200)
<1> PICK r : r = NewResponse(w)
  OBVIOUS
<1>1. Shape(r)
  BY NewIs
<1>2. /\ r.threw = "none" /\ r.wrapped = w /\ ~r.head /\ ~r.chunked /\ r.cookie = "none"
      /\ r.own = NoHeaders /\ r.status = 200 /\ r.wire = NoAnswer
  BY DEF NewResponse
<1>3. /\ ~NoAnswer.sent /\ ~NoAnswer.ended /\ NoAnswer.length = "unknown"
      /\ NoAnswer.headers = NoHeaders
  BY DEF NoAnswer
<1>4. Table(NoHeaders)
  BY DEF Table, NoHeaders
<1>5. /\ ~r.wire.sent /\ ~r.wire.ended /\ r.wire.length = "unknown"
      /\ r.wire.headers = NoHeaders
  BY <1>2, <1>3
<1> QED
  BY <1>1, <1>2, <1>4, <1>5 DEF Open, Quiet

\* A request begins; GET is remembered when HEAD is asked.
LEMMA BeginFollows ==
    ASSUME NEW m, NEW p, Begin(m, p), phase = "serving", script' \in Scripts,
           UNCHANGED routesVars, (m = "HEAD" => Recalls(before[1], FALSE)')
    PROVE  FollowInv'
<1>1. /\ method' = m /\ path' = p /\ at' = 0 /\ pc' = "find" /\ passed' = NotCalled
      /\ res' = NewResponse(m = "HEAD")
  BY DEF Begin
<1>2. Begun(res, NoHeaders)'
  <2> PICK w \in BOOLEAN : w <=> m = "HEAD"
    OBVIOUS
  <2>1. Open(res', w, NoHeaders, 200)
    BY <1>1, OpenNew
  <2> QED
    BY <1>1, <2>1 DEF Begun
<1>3. phase' = "serving"
  BY DEF routesVars
<1>4. Reaching'
  BY <1>1, <1>2, <1>3 DEF Reaching
<1>5. Course'
  BY <1>1 DEF Course
<1>6. Remembered'
  BY <1>1 DEF Remembered
<1>7. ~passed'.called
  BY <1>1 DEF NotCalled
<1> QED
  BY <1>4, <1>5, <1>6, <1>7 DEF FollowInv, Optioned

\* A client sends a request.
LEMMA AskFollows == ASSUME RequestInv, FollowInv, Ask PROVE FollowInv'
<1>1. PICK m \in Method, p \in Paths \union {"nowhere"} : Begin(m, p)
  BY DEF Ask
<1>2. m # "HEAD" /\ phase = "serving" /\ UNCHANGED routesVars /\ script' \in Scripts
  BY MethodAssumption DEF Ask, Serving
<1> QED
  BY <1>1, <1>2, BeginFollows

\* HEAD is asked after GET was answered.
LEMMA AskHeadFollows == ASSUME RequestInv, FollowInv, AskHead PROVE FollowInv'
<1>1. /\ phase = "serving" /\ UNCHANGED routesVars /\ pc = "done" /\ method = "GET"
      /\ before' = <<Result>> /\ Begin("HEAD", path) /\ script' = script /\ path' = path
  BY DEF AskHead, Serving, Begin
<1>2. script \in Scripts
  BY <1>1 DEF FollowInv, Reaching
<1>3. Recalls(Result, FALSE)
  BY <1>1 DEF FollowInv, Course
<1> PICK t : t = Result
  OBVIOUS
<1>4. Recalls(t, FALSE)'
  <2>1. router' = router
    BY <1>1 DEF routesVars
  <2>2. Recalls(t, FALSE)' <=> Recalls(t, FALSE)
    BY <1>1, <2>1, RecallsStay
  <2> QED
    BY <1>3, <2>2
<1>5. before'[1] = t
  BY <1>1
<1>6. Recalls(before[1], FALSE)'
  BY <1>4, <1>5
<1> QED
  BY <1>1, <1>2, <1>6, BeginFollows

\* A path that no handler serves for GET.
LEMMA NotFoundFollows ==
    ASSUME RequestInv, FollowInv, at = 0, NotFound PROVE FollowInv'
<1>1. /\ pc = "find" /\ pc' = "done" /\ UNCHANGED routesVars
      /\ <<Served, path>> \notin DOMAIN router
      /\ res' = End(SetStatus(res, 404), "empty")
      /\ UNCHANGED <<method, path, script, handler, at, passed, before, logged>>
  BY DEF NotFound, Serving
<1>2. logged = 0 /\ ~passed.called
  BY <1>1 DEF RequestInv, Respond, InChain
<1>3. Begun(res, NoHeaders) /\ phase = "serving" /\ script \in Scripts
  BY <1>1 DEF FollowInv, Reaching
<1>4. router' = router /\ phase' = phase /\ Key' = Key
  BY <1>1 DEF routesVars, Key
<1>5. Reaching' /\ Optioned'
  BY <1>1, <1>2, <1>3, <1>4 DEF Reaching, Optioned
<1>6. Remembered'
  BY <1>1, <1>4, RememberedStays DEF FollowInv
<1>7. Course'
  <2> SUFFICES ASSUME method \in {"GET", "HEAD"}
               PROVE  Missed' /\ \A w \in BOOLEAN : (w <=> method = "HEAD") => Recalls(Result, w)'
    BY <1>1 DEF Course
  <2>1. Key' \notin DOMAIN router'
    BY <1>1, <1>4 DEF Key, Served
  <2>2. Missed'
    BY <1>1, <2>1 DEF Missed
  <2>3. Result' = Refusal(res, 404, 0)
    BY <1>1, <1>2 DEF Result, Refusal
  <2>4. ASSUME NEW w \in BOOLEAN, w <=> method = "HEAD" PROVE Recalls(Result, w)'
    <3>1. Open(res, w, NoHeaders, 200)
      BY <1>3, <2>4 DEF Begun
    <3>2. \E b : Open(b, w, NoHeaders, 200) /\ Result' = Refusal(b, 404, 0)
      BY <2>3, <3>1
    <3> QED
      BY <2>1, <3>2 DEF Recalls
  <2> QED
    BY <2>2, <2>4
<1> QED
  BY <1>5, <1>6, <1>7 DEF FollowInv

\* The handler for GET is that for HEAD.
LEMMA FindFollows ==
    ASSUME RequestInv, FollowInv, at = 0, Find PROVE FollowInv'
<1>1. /\ pc = "find" /\ phase = "serving" /\ UNCHANGED routesVars
      /\ <<Served, path>> \in DOMAIN router /\ handler' = router[<<Served, path>>]
      /\ UNCHANGED <<method, path, script, passed, before, logged>>
  BY DEF Find, Serving
<1>2. logged = 0 /\ ~passed.called
  BY <1>1 DEF RequestInv, Respond, InChain
<1>3. Begun(res, NoHeaders) /\ script \in Scripts
  BY <1>1 DEF FollowInv, Reaching
<1>4. router' = router /\ phase' = phase /\ Key' = Key /\ Served' = Served
  BY <1>1 DEF routesVars, Key, Served
<1>5. Optioned'
  BY <1>1, <1>2 DEF Optioned
<1>6. Remembered'
  BY <1>1, <1>4, RememberedStays DEF FollowInv
<1> PICK h : h = router[<<Served, path>>]
  OBVIOUS
<1>7. \A g : Unbuildable(g)' <=> Unbuildable(g)
  BY <1>1 DEF Unbuildable
<1>9. CASE Unbuildable(h)
  <2>1. pc' = "last" /\ res' = Throws(res, "error") /\ at' = 0
    BY <1>1, <1>9 DEF Find
  <2>2. Reaching'
    BY <1>1, <1>3, <1>4, <2>1 DEF Reaching
  <2>3. Course'
    <3> SUFFICES ASSUME method \in {"GET", "HEAD"} PROVE Missed'
      BY <1>1, <2>1 DEF Course
    <3>1. Key \in DOMAIN router /\ router[Key] = h
      BY <1>1 DEF Key, Served
    <3>2. Key' \in DOMAIN router' /\ Unbuildable(router[Key])'
      BY <1>4, <1>7, <1>9, <3>1
    <3> PICK b : b = res
      OBVIOUS
    <3>3. Begun(b, NoHeaders)' /\ res' = Throws(b, "error")
      BY <1>1, <1>3, <2>1 DEF Begun
    <3> QED
      BY <1>1, <1>2, <2>1, <3>2, <3>3 DEF Missed
  <2> QED
    BY <1>5, <1>6, <2>2, <2>3 DEF FollowInv
<1>10. CASE ~Unbuildable(h)
  <2>1. pc' = "down" /\ at' = 1 /\ res' = res
    BY <1>1, <1>10 DEF Find
  <2>2. Reaching'
    <3>1. HeadersAt(h, 1) = NoHeaders
      BY HeadersOn
    <3>2. Begun(res, HeadersAt(handler, at))'
      BY <1>1, <1>3, <2>1, <3>1 DEF Begun
    <3> QED
      BY <1>1, <1>3, <1>4, <2>1, <3>2 DEF Reaching
  <2>3. Course'
    <3>1. ~Unbuildable(handler)'
      BY <1>1, <1>7, <1>10
    <3>2. 1..(at' - 1) = {}
      BY <2>1
    <3> QED
      BY <2>1, <3>1, <3>2 DEF Course
  <2> QED
    BY <1>5, <1>6, <2>2, <2>3 DEF FollowInv
<1> QED
  BY <1>9, <1>10

\* No request is there while an application starts.
LEMMA StartFollows ==
    ASSUME RequestInv, FollowInv, phase # "serving", UNCHANGED requestVars
    PROVE  FollowInv'
<1>1. pc = "idle" /\ at = 0 /\ ~passed.called
  BY DEF FollowInv, Reaching, RequestInv, InChain
<1>2. pc' = "idle" /\ at' = 0 /\ ~passed'.called
  BY <1>1 DEF requestVars
<1> QED
  BY <1>2 DEF FollowInv, Reaching, Course, Remembered, Optioned

\* Nothing happens.
LEMMA StaysFollowed ==
    ASSUME FollowInv, UNCHANGED vars PROVE FollowInv'
<1>1. UNCHANGED <<pc, method, path, script, handler, at, value, res, passed, logged, before,
                  phase, router, allow>>
  BY DEF vars, routesVars, requestVars
<1>2. \A b, own : Begun(b, own)' <=> Begun(b, own)
  BY <1>1 DEF Begun
<1>3. Reaching'
  <2>1. Begun(res, NoHeaders)' <=> Begun(res, NoHeaders)
    BY <1>1 DEF Begun
  <2>2. Begun(res, HeadersAt(handler, at))' <=> Begun(res, HeadersAt(handler, at))
    BY <1>1 DEF Begun
  <2> QED
    BY <1>1, <2>1, <2>2 DEF FollowInv, Reaching, Served
<1>4. Optioned'
  BY <1>1 DEF FollowInv, Optioned, AllowHeader
<1>5. Remembered'
  BY <1>1, RememberedStays DEF FollowInv, Remembered
<1>6. Course'
  <2>1. \A h : Unbuildable(h)' <=> Unbuildable(h)
    BY <1>1 DEF Unbuildable
  <2>2. Unbuildable(handler)' <=> Unbuildable(handler)
    BY <1>1, <2>1
  <2>3. Unbuildable(router[Key])' <=> Unbuildable(router[Key])
    BY <1>1 DEF Unbuildable, Key
  <2>4. Missed' <=> Missed
    BY <1>1, <1>2, <2>3 DEF Missed, Key
  <2>5. Turned' <=> Turned
    BY <1>1, <1>2, <2>2 DEF Turned
  <2>6. Result' = Result
    BY <1>1 DEF Result
  <2>7. \A w : Recalls(Result, w)' <=> Recalls(Result, w)
    <3> PICK t : t = Result
      OBVIOUS
    <3>1. \A w : Recalls(t, w)' <=> Recalls(t, w)
      BY <1>1, RecallsStay
    <3> QED
      BY <2>6, <3>1
  <2> QED
    BY <1>1, <2>2, <2>4, <2>5, <2>7 DEF FollowInv, Course
<1> QED
  BY <1>3, <1>4, <1>5, <1>6 DEF FollowInv

\* Every step of a request keeps what is known of its answer.
LEMMA RequestFollows ==
    ASSUME RequestInv, FollowInv, OptionsOnly, Unfound, Ask \/ AskHead \/ RequestNext
    PROVE  FollowInv'
<1>1. CASE Ask
  BY <1>1, AskFollows
<1>2. CASE AskHead
  BY <1>2, AskHeadFollows
<1>3. CASE NotFound
  <2>1. at = 0
    BY <1>3 DEF NotFound, Unfound
  <2> QED
    BY <1>3, <2>1, NotFoundFollows
<1>4. CASE Find
  <2>1. at = 0
    BY <1>4 DEF Find, Unfound
  <2> QED
    BY <1>4, <2>1, FindFollows
<1>5. CASE Before \/ GuardPasses \/ GuardRefuses \/ GuardThrows \/ Cors \/ Session
  BY <1>5, BeforeFollows, GuardPassesFollows, GuardRefusesFollows, GuardThrowsFollows,
     CorsFollows, SessionFollows
<1>6. CASE ParseBody \/ OwnInterceptor \/ Controller \/ Return \/ HandleError \/ LastResort
  BY <1>6, ParseBodyFollows, OwnInterceptorFollows, ControllerFollows, ReturnFollows,
     HandleErrorFollows, LastResortFollows
<1> QED
  BY <1>1, <1>2, <1>3, <1>4, <1>5, <1>6 DEF RequestNext

\* What is told of a request that has not got to a chain.
Refused(t, n, errors) ==
    /\ t.wire.status = n /\ t.wire.headers = NoHeaders /\ t.wire.length = "empty"
    /\ t.logged = errors

\* A refusal is the same for all responses that were begun alike.
LEMMA RefusalIs ==
    ASSUME NEW b, NEW w \in BOOLEAN, Open(b, w, NoHeaders, 200), NEW n \in Nat, NEW errors
    PROVE  Refused(Refusal(b, n, errors), n, errors)
<1> PICK s : s = SetStatus(b, n)
  OBVIOUS
<1>1. Open(s, w, NoHeaders, n)
  BY OpenStatus
<1>2. Sent(End(s, "empty"), w, NoHeaders, n, "empty")
  BY <1>1, OpenEnd
<1> QED
  BY <1>2 DEF Refusal, Refused, Sent

\* A chain stops a request at one place.
LEMMA StopsOnce ==
    ASSUME NEW h, ChainFits(h), NEW s, NEW i, NEW j, FirstStop(h, s, i), FirstStop(h, s, j)
    PROVE  i = j
<1>1. i \in Nat /\ j \in Nat /\ i > 0 /\ j > 0
  BY DEF FirstStop, ChainFits
<1>2. ~(i < j) /\ ~(j < i)
  BY <1>1 DEF FirstStop
<1> QED
  BY <1>1, <1>2

\* HEAD is answered as GET was.
LEMMA HeadFollows ==
    ASSUME RequestInv, FollowInv, OptionsOnly PROVE HeadIsGet
<1> SUFFICES ASSUME pc = "done", method = "HEAD", ~ByHand, res.cookie = "none"
             PROVE  /\ res.wire.status = before[1].wire.status
                    /\ res.wire.headers = before[1].wire.headers
                    /\ logged = before[1].logged
                    /\ res.wire.length # before[1].wire.length => script.guard = "response"
  BY DEF HeadIsGet
<1> PICK get : get = before[1]
  OBVIOUS
<1> PICK head : head = Result
  OBVIOUS
<1>1. head.wire = res.wire /\ head.logged = logged
  BY DEF Result
<1>2. Recalls(get, FALSE) /\ Recalls(head, TRUE)
  BY DEF FollowInv, Remembered, Course
<1>3. script \in Scripts /\ at \in Nat /\ IF at = 0 THEN Missed ELSE Turned
  BY DEF FollowInv, Reaching, Course, RequestInv, RequestTypes
<1> SUFFICES /\ head.wire.status = get.wire.status /\ head.wire.headers = get.wire.headers
             /\ head.logged = get.logged
             /\ head.wire.length # get.wire.length => script.guard = "response"
  BY <1>1
<1>5. CASE Key \notin DOMAIN router
  <2> PICK n \in Nat, e \in Nat : n = 404 /\ e = 0
    OBVIOUS
  <2>1. ASSUME NEW t, NEW w \in BOOLEAN, Recalls(t, w) PROVE Refused(t, n, e)
    <3>1. PICK b : Open(b, w, NoHeaders, 200) /\ t = Refusal(b, n, e)
      BY <1>5, <2>1 DEF Recalls
    <3> QED
      BY <3>1, RefusalIs
  <2>2. Refused(get, n, e) /\ Refused(head, n, e)
    BY <1>2, <2>1
  <2> QED
    BY <2>2 DEF Refused
<1>6. CASE Key \in DOMAIN router /\ Unbuildable(router[Key])
  <2> PICK n \in Nat, e \in Nat : n = 500 /\ e = 1
    OBVIOUS
  <2>1. ASSUME NEW t, NEW w \in BOOLEAN, Recalls(t, w) PROVE Refused(t, n, e)
    <3>1. PICK b : Open(b, w, NoHeaders, 200) /\ t = Refusal(b, n, e)
      BY <1>6, <2>1 DEF Recalls
    <3> QED
      BY <3>1, RefusalIs
  <2>2. Refused(get, n, e) /\ Refused(head, n, e)
    BY <1>2, <2>1
  <2> QED
    BY <2>2 DEF Refused
<1>7. CASE Key \in DOMAIN router /\ ~Unbuildable(router[Key])
  <2>1. at > 0 /\ Turned
    BY <1>3, <1>7 DEF Missed
  <2>2. ~handler.answersOptions /\ handler = router[Key]
    BY <2>1, NoOptions DEF FollowInv
  <2>3. ChainFits(handler) /\ FirstStop(handler, script, at)
    BY <2>1 DEF RequestInv, InChain, HandlerFits, Turned
  <2>4. Left(handler, script, at)
    <3> SUFFICES ASSUME handler.chain[at] = "backend"
                 PROVE  script.handler \in {"text", "json", "nothing", "setsType", "throws"}
      BY DEF Left
    <3>1. passed.called /\ script.handler # "opensSession"
      BY <2>1 DEF Turned
    <3>2. script.handler \notin {"sends", "sendsJson", "redirects", "streams", "breaks"}
      BY <3>1 DEF ByHand
    <3>3. script.handler \in Outcomes
      BY <1>3, ScriptAssumption
    <3> QED
      BY <3>1, <3>2, <3>3 DEF Outcomes
  <2> PICK own : own = HeadersAt(handler, at)
    OBVIOUS
  <2>5. own \in {NoHeaders, Header("access", "all")}
    BY <1>3, <2>1, HeadersOn
  <2>6. ASSUME NEW t, NEW w \in BOOLEAN, Recalls(t, w)
        PROVE  \E b : Open(b, w, own, 200) /\ t = Told(b, handler, script, at)
    <3>1. PICK i : /\ FirstStop(handler, script, i)
                   /\ Left(handler, script, i) =>
                         \E b : /\ Open(b, w, HeadersAt(handler, i), 200)
                                /\ t = Told(b, handler, script, i)
      BY <1>7, <2>2, <2>6 DEF Recalls
    <3>2. i = at
      BY <2>3, <3>1, StopsOnce
    <3> QED
      BY <2>4, <3>1, <3>2
  <2>7. PICK b1 : Open(b1, FALSE, own, 200) /\ get = Told(b1, handler, script, at)
    BY <1>2, <2>6
  <2>8. PICK b2 : Open(b2, TRUE, own, 200) /\ head = Told(b2, handler, script, at)
    BY <1>2, <2>6
  <2>9. \E st, hd, length, n : \A w \in BOOLEAN : \A b :
          Open(b, w, own, 200) => Agrees(b, handler, script, at, st, hd, length, n)
    BY <1>3, <2>3, <2>4, <2>5, ToldAlike
  <2>10. PICK st, hd, length, n :
            /\ Agrees(b1, handler, script, at, st, hd, length, n)
            /\ Agrees(b2, handler, script, at, st, hd, length, n)
    BY <2>7, <2>8, <2>9
  <2> QED
    BY <2>7, <2>8, <2>10 DEF Agrees
<1> QED
  BY <1>5, <1>6, <1>7

-----------------------------------------------------------------------------
(* What the application lists: the routes that are declared, and those that *)
(* CorsExtension makes.                                                     *)

\* RestRouteExtension has made the routes of the module.
Listed(m) == m < turn \/ phase # "stage1" \/ (m = turn /\ ran # {})
DeclaredAreMade ==
    \A m \in DOMAIN app : Listed(m) =>
       \A r \in ToSet(app[m].routes) : \E c \in ToSet(ctrl[m]) :
          ~c.answersOptions /\ c.methods = r.methods /\ c.path = r.path

\* CorsExtension has made the others, each for OPTIONS alone, at a path whose
\* methods it knows.
MadeForOptions ==
    \A m \in DOMAIN app : \A c \in ToSet(ctrl[m]) :
       c.answersOptions => corsState = "done" /\ c.methods = <<"OPTIONS">> /\ c.path \in DOMAIN allow

\* The methods of a path in the modules that have a route there and none for OPTIONS.
OpenIn(m, p) ==
    /\ \E r \in ToSet(app[m].routes) : r.path = p
    /\ \A r \in ToSet(app[m].routes) : r.path = p => "OPTIONS" \notin ToSet(r.methods)
Named(x, p) ==
    x = "OPTIONS" \/ \E m \in DOMAIN app : /\ OpenIn(m, p)
                                           /\ \E r \in ToSet(app[m].routes) :
                                                 r.path = p /\ x \in ToSet(r.methods)
AllowNames == \A p \in DOMAIN allow : \A x : x \in allow[p] <=> Named(x, p)

\* DispatcherExtension has registered the routes of the module, each for all that
\* it is for.
Ready(m) == phase = "serving" \/ (phase = "stage3" /\ m < turn)
RouterHasAll ==
    \A m \in DOMAIN app : Ready(m) =>
       \A c \in ToSet(ctrl[m]) : \A k \in Keys(c) :
          k \in DOMAIN router /\ router[k].answersOptions = c.answersOptions
RouterHasOptions ==
    \A k \in DOMAIN router : router[k].answersOptions => k[1] = "OPTIONS" /\ k[2] \in DOMAIN allow

Listing ==
    phase # "failed" =>
       DeclaredAreMade /\ MadeForOptions /\ AllowNames /\ RouterHasAll /\ RouterHasOptions

\* The same route, but for interceptors.
SameRoute(c, d) ==
    d.methods = c.methods /\ d.path = c.path /\ d.answersOptions = c.answersOptions

\* A step that leaves the routes what they are.
LEMMA SameIsListed ==
    ASSUME RoutesTypes, Listing, phase # "failed", UNCHANGED <<app, allow, router>>,
           corsState = "done" => corsState' = "done",
           \A m \in DOMAIN app :
              /\ DOMAIN ctrl'[m] = DOMAIN ctrl[m]
              /\ \A j \in DOMAIN ctrl[m] : SameRoute(ctrl[m][j], ctrl'[m][j])
              /\ Listed(m)' => Listed(m)
              /\ Ready(m)' => Ready(m)
    PROVE  Listing'
<1>1. ASSUME NEW m \in DOMAIN app, NEW c \in ToSet(ctrl[m])
      PROVE  \E d \in ToSet(ctrl'[m]) : SameRoute(c, d)
  BY <1>1 DEF ToSet
<1>2. ASSUME NEW m \in DOMAIN app, NEW d \in ToSet(ctrl'[m])
      PROVE  \E c \in ToSet(ctrl[m]) : SameRoute(c, d)
  BY <1>2 DEF ToSet
<1>3. DeclaredAreMade'
  <2> SUFFICES ASSUME NEW m \in DOMAIN app, Listed(m), NEW r \in ToSet(app[m].routes)
               PROVE  \E d \in ToSet(ctrl'[m]) :
                         ~d.answersOptions /\ d.methods = r.methods /\ d.path = r.path
    BY DEF DeclaredAreMade
  <2>1. PICK c \in ToSet(ctrl[m]) : ~c.answersOptions /\ c.methods = r.methods /\ c.path = r.path
    BY DEF Listing, DeclaredAreMade
  <2> QED
    BY <1>1, <2>1 DEF SameRoute
<1>4. MadeForOptions'
  BY <1>2 DEF Listing, MadeForOptions, SameRoute
<1>5. AllowNames'
  BY DEF Listing, AllowNames, Named, OpenIn
<1>6. RouterHasAll'
  <2> SUFFICES ASSUME NEW m \in DOMAIN app, Ready(m), NEW d \in ToSet(ctrl'[m]), NEW k \in Keys(d)
               PROVE  k \in DOMAIN router /\ router[k].answersOptions = d.answersOptions
    BY DEF RouterHasAll, Keys, KeysAt, Targets
  <2>1. PICK c \in ToSet(ctrl[m]) : SameRoute(c, d)
    BY <1>2
  <2>2. k \in Keys(c)
    BY <2>1 DEF SameRoute, Keys, KeysAt
  <2> QED
    BY <2>1, <2>2 DEF Listing, RouterHasAll, SameRoute
<1>7. RouterHasOptions'
  BY DEF Listing, RouterHasOptions
<1> QED
  BY <1>3, <1>4, <1>5, <1>6, <1>7 DEF Listing

\* RestRouteExtension makes the routes that the module declares.
LEMMA RunRestRouteLists ==
    ASSUME RoutesTypes, Turns, Listing, RunRestRoute
    PROVE  Listing'
<1>1. CASE phase' = "failed"
  BY <1>1 DEF Listing
<1>2. CASE phase' # "failed"
  <2> DEFINE routes == app[turn].routes
             new == [j \in DOMAIN routes |-> ControllerMeta(routes[j])]
  <2>1. /\ phase = "stage1" /\ ran = {} /\ ran' = {"rest"}
        /\ ctrl' = [ctrl EXCEPT ![turn] = new]
        /\ UNCHANGED <<app, phase, turn, corsState, allow, router>>
    BY <1>2 DEF RunRestRoute, Fails, Ran
  <2>2. turn \in DOMAIN app /\ turn \in Nat /\ DOMAIN app = 1..Len(app) /\ DOMAIN ctrl = DOMAIN app
    BY <2>1, AppIs DEF RoutesTypes
  <2>3. corsState # "done"
    BY <2>1 DEF Turns
  <2>4. /\ ctrl'[turn] = new
        /\ \A m \in DOMAIN app : m # turn => ctrl'[m] = ctrl[m]
    BY <2>1, <2>2
  <2>5. \A j \in DOMAIN routes : /\ ~new[j].answersOptions /\ new[j].methods = routes[j].methods
                                 /\ new[j].path = routes[j].path
    BY DEF ControllerMeta
  <2> HIDE DEF new
  <2>6. DOMAIN new = DOMAIN routes
    BY DEF new
  <2>7. ~Listed(turn)
    BY <2>1, <2>2 DEF Listed
  <2>8. DeclaredAreMade'
    <3> SUFFICES ASSUME NEW m \in DOMAIN app, Listed(m)', NEW r \in ToSet(app[m].routes)
                 PROVE  \E c \in ToSet(ctrl'[m]) :
                           ~c.answersOptions /\ c.methods = r.methods /\ c.path = r.path
      BY <2>1 DEF DeclaredAreMade
    <3>1. CASE m = turn
      <4>1. PICK j \in DOMAIN routes : r = routes[j]
        BY <3>1 DEF ToSet
      <4>2. new[j] \in ToSet(ctrl'[m])
        BY <2>4, <2>6, <3>1, <4>1 DEF ToSet
      <4> QED
        BY <2>5, <4>1, <4>2
    <3>2. CASE m # turn
      <4>1. Listed(m) /\ ctrl'[m] = ctrl[m]
        BY <2>1, <2>4, <3>2 DEF Listed
      <4> QED
        BY <2>1, <4>1 DEF Listing, DeclaredAreMade
    <3> QED
      BY <3>1, <3>2
  <2>9. MadeForOptions'
    <3> SUFFICES ASSUME NEW m \in DOMAIN app, NEW c \in ToSet(ctrl'[m]) PROVE ~c.answersOptions
      BY <2>1 DEF MadeForOptions
    <3>1. CASE m = turn
      BY <2>4, <2>5, <2>6, <3>1 DEF ToSet
    <3>2. CASE m # turn
      BY <2>1, <2>3, <2>4, <3>2 DEF Listing, MadeForOptions
    <3> QED
      BY <3>1, <3>2
  <2>10. AllowNames' /\ RouterHasOptions'
    BY <2>1 DEF Listing, AllowNames, Named, OpenIn, RouterHasOptions
  <2>11. RouterHasAll'
    BY <2>1 DEF RouterHasAll, Ready
  <2> QED
    BY <2>8, <2>9, <2>10, <2>11 DEF Listing
<1> QED
  BY <1>1, <1>2

\* An extension that adds interceptors to the routes of the module at work.
LEMMA AdditionLists ==
    ASSUME RoutesTypes, Listing, phase = "stage1", "rest" \in ran,
           NEW e, ran' = ran \union {e},
           UNCHANGED <<app, phase, turn, corsState, allow, router>>,
           NEW new, DOMAIN new = DOMAIN ctrl[turn], ctrl' = [ctrl EXCEPT ![turn] = new],
           \A j \in DOMAIN ctrl[turn] : SameRoute(ctrl[turn][j], new[j])
    PROVE  Listing'
<1>1. turn \in DOMAIN app /\ DOMAIN ctrl = DOMAIN app
  BY DEF RoutesTypes
<1>2. ctrl'[turn] = new /\ \A m \in DOMAIN app : m # turn => ctrl'[m] = ctrl[m]
  BY <1>1
<1>3. ASSUME NEW m \in DOMAIN app
      PROVE  /\ DOMAIN ctrl'[m] = DOMAIN ctrl[m]
             /\ \A j \in DOMAIN ctrl[m] : SameRoute(ctrl[m][j], ctrl'[m][j])
             /\ Listed(m)' => Listed(m)
             /\ Ready(m)' => Ready(m)
  <2>1. CASE m = turn
    BY <1>2, <2>1 DEF Listed, Ready
  <2>2. CASE m # turn
    <3>1. \A c : SameRoute(c, c)
      BY DEF SameRoute
    <3> QED
      BY <1>2, <2>2, <3>1 DEF Listed, Ready
  <2> QED
    BY <2>1, <2>2
<1> QED
  BY <1>3, SameIsListed

\* The interceptors that a route names itself.
LEMMA RunInterceptorLists ==
    ASSUME RoutesTypes, Listing, RunInterceptor PROVE Listing'
<1>1. CASE phase' = "failed"
  BY <1>1 DEF Listing
<1>2. CASE phase' # "failed"
  <2> DEFINE new == [j \in DOMAIN ctrl[turn] |->
                        IF ctrl[turn][j].own THEN Push(ctrl[turn][j], "own") ELSE ctrl[turn][j]]
  <2>1. turn \in DOMAIN app /\ ctrl[turn] \in Seq(Meta) /\ ctrl \in [DOMAIN app -> Seq(Meta)]
    BY <1>2 DEF RunInterceptor, Runs, RoutesTypes
  <2>2. /\ phase = "stage1" /\ "rest" \in ran /\ ran' = ran \union {"interceptor"}
        /\ UNCHANGED <<app, phase, turn, corsState, allow, router>>
        /\ ctrl' = [ctrl EXCEPT ![turn] = new]
    BY <1>2, <2>1 DEF RunInterceptor, Runs, Ran, Update, Fails
  <2>3. ASSUME NEW j \in DOMAIN ctrl[turn] PROVE SameRoute(ctrl[turn][j], new[j])
    <3>1. ctrl[turn][j] \in Meta
      BY <2>1
    <3>2. Added(ctrl[turn][j], Push(ctrl[turn][j], "own"), <<"own">>)
      BY <3>1, Additions DEF Name
    <3> QED
      BY <3>2 DEF Added, SameRoute
  <2>4. DOMAIN new = DOMAIN ctrl[turn]
    OBVIOUS
  <2> HIDE DEF new
  <2> QED
    BY <2>2, <2>3, <2>4, AdditionLists
<1> QED
  BY <1>1, <1>2

\* SessionCookieExtension adds its interceptor.
LEMMA RunSessionCookieLists ==
    ASSUME RoutesTypes, Listing, RunSessionCookie PROVE Listing'
<1> DEFINE new == [j \in DOMAIN ctrl[turn] |->
                      IF ctrl[turn][j].scope = "route" THEN Push(ctrl[turn][j], "session")
                      ELSE ctrl[turn][j]]
<1>1. turn \in DOMAIN app /\ ctrl[turn] \in Seq(Meta) /\ ctrl \in [DOMAIN app -> Seq(Meta)]
  BY DEF RunSessionCookie, Runs, RoutesTypes
<1>2. /\ phase = "stage1" /\ "rest" \in ran /\ ran' = ran \union {"session"}
      /\ UNCHANGED <<app, phase, turn, corsState, allow, router>>
      /\ ctrl' = [ctrl EXCEPT ![turn] = new]
  BY <1>1 DEF RunSessionCookie, Runs, Ran, Update
<1>3. ASSUME NEW j \in DOMAIN ctrl[turn] PROVE SameRoute(ctrl[turn][j], new[j])
  <2>1. ctrl[turn][j] \in Meta
    BY <1>1
  <2>2. Added(ctrl[turn][j], Push(ctrl[turn][j], "session"), <<"session">>)
    BY <2>1, Additions DEF Name
  <2> QED
    BY <2>2 DEF Added, SameRoute
<1>4. DOMAIN new = DOMAIN ctrl[turn]
  OBVIOUS
<1> HIDE DEF new
<1> QED
  BY <1>2, <1>3, <1>4, AdditionLists

\* BodyParserExtension adds an interceptor for each method with a body.
LEMMA RunBodyParserLists ==
    ASSUME RoutesTypes, Listing, RunBodyParser PROVE Listing'
<1> DEFINE new == [j \in DOMAIN ctrl[turn] |-> BodyParsers(ctrl[turn][j])]
<1>1. turn \in DOMAIN app /\ ctrl[turn] \in Seq(Meta) /\ ctrl \in [DOMAIN app -> Seq(Meta)]
  BY DEF RunBodyParser, Runs, RoutesTypes
<1>2. /\ phase = "stage1" /\ "rest" \in ran /\ ran' = ran \union {"body"}
      /\ UNCHANGED <<app, phase, turn, corsState, allow, router>>
      /\ ctrl' = [ctrl EXCEPT ![turn] = new]
  BY <1>1 DEF RunBodyParser, Runs, Ran, Update
<1>3. ASSUME NEW j \in DOMAIN ctrl[turn] PROVE SameRoute(ctrl[turn][j], new[j])
  <2> DEFINE c == ctrl[turn][j]
             s == [k \in 1..Cardinality(Parsed(c)) |-> "body"]
  <2>1. c \in Meta
    BY <1>1
  <2>2. new[j] = Extend(c, s)
    BY DEF BodyParsers
  <2>3. s \in Seq(Name)
    BY <2>1, ParsersAre
  <2>4. Added(c, Extend(c, s), s)
    BY <2>1, <2>3, Additions
  <2> HIDE DEF new, c, s
  <2>5. SameRoute(c, new[j])
    BY <2>2, <2>4 DEF Added, SameRoute
  <2> QED
    BY <2>5 DEF c
<1>4. DOMAIN new = DOMAIN ctrl[turn]
  OBVIOUS
<1> HIDE DEF new
<1> QED
  BY <1>2, <1>3, <1>4, AdditionLists

\* The routes for OPTIONS that CorsExtension makes for a module.
LEMMA NewOptionsList ==
    ASSUME RoutesTypes, NEW m \in DOMAIN app, NEW c \in ToSet(NewOptions(m))
    PROVE  /\ c.answersOptions /\ c.methods = <<"OPTIONS">> /\ c.path \in OpenPaths(m)
<1> DEFINE S == OpenPaths(m) \ UNION {OpenPaths(k) : k \in 1..(m - 1)}
           s == SetToSeq(S)
           n == Cardinality(S)
<1>1. IsFiniteSet(S)
  BY PathsAreFinite
<1>2. n \in Nat /\ s \in [1..n -> S]
  BY <1>1, SetToSeqIs
<1>3. NewOptions(m) = [i \in DOMAIN s |-> OptionsController(s[i])]
  BY DEF NewOptions
<1>4. S \subseteq OpenPaths(m)
  OBVIOUS
<1> HIDE DEF S, s, n
<1>5. PICK i \in DOMAIN s : c = OptionsController(s[i])
  BY <1>3 DEF ToSet
<1>6. s[i] \in OpenPaths(m)
  BY <1>2, <1>4, <1>5
<1> QED
  BY <1>5, <1>6 DEF OptionsController

\* When all modules have their routes, the open paths of a module are those that
\* it declares a route at, and none for OPTIONS.
LEMMA OpenPathsAre ==
    ASSUME RoutesTypes, Metas, Listing, phase = "stage1", corsState # "done",
           NEW m \in DOMAIN app, Listed(m)
    PROVE  /\ \A c \in ToSet(ctrl[m]) : ~c.answersOptions
           /\ \A p : p \in OpenPaths(m) <=> OpenIn(m, p)
           /\ \A p, x : (\E c \in RoutesAt(p, m) : x \in ToSet(c.methods))
                           <=> \E r \in ToSet(app[m].routes) : r.path = p /\ x \in ToSet(r.methods)
<1>1. \A c \in ToSet(ctrl[m]) : ~c.answersOptions
  BY DEF Listing, MadeForOptions
<1>2. \A c \in ToSet(ctrl[m]) : \E r \in ToSet(app[m].routes) :
         c.methods = r.methods /\ c.path = r.path
  <2> SUFFICES ASSUME NEW c \in ToSet(ctrl[m])
               PROVE  \E r \in ToSet(app[m].routes) : c.methods = r.methods /\ c.path = r.path
    OBVIOUS
  <2>1. PICK j \in DOMAIN ctrl[m] : c = ctrl[m][j]
    BY DEF ToSet
  <2>2. MetaFits(m, c)
    BY <2>1 DEF Metas
  <2>3. Declares(m, c)
    BY <1>1, <2>2 DEF MetaFits
  <2> QED
    BY <2>3 DEF Declares
<1>3. \A r \in ToSet(app[m].routes) : \E c \in ToSet(ctrl[m]) :
         c.methods = r.methods /\ c.path = r.path
  BY DEF Listing, DeclaredAreMade
<1>4. ASSUME NEW p PROVE p \in OpenPaths(m) <=> OpenIn(m, p)
  <2>1. p \in OpenPaths(m) <=> /\ \E c \in ToSet(ctrl[m]) : c.path = p
                               /\ ~\E c \in ToSet(ctrl[m]) : "OPTIONS" \in ToSet(c.methods) /\ c.path = p
    BY DEF OpenPaths, PathsWithOptions
  <2>2. (\E c \in ToSet(ctrl[m]) : c.path = p) <=> \E r \in ToSet(app[m].routes) : r.path = p
    BY <1>2, <1>3
  <2>3. (\E c \in ToSet(ctrl[m]) : "OPTIONS" \in ToSet(c.methods) /\ c.path = p)
           <=> \E r \in ToSet(app[m].routes) : "OPTIONS" \in ToSet(r.methods) /\ r.path = p
    BY <1>2, <1>3
  <2> QED
    BY <2>1, <2>2, <2>3 DEF OpenIn
<1>5. ASSUME NEW p, NEW x
      PROVE  (\E c \in RoutesAt(p, m) : x \in ToSet(c.methods))
                <=> \E r \in ToSet(app[m].routes) : r.path = p /\ x \in ToSet(r.methods)
  BY <1>2, <1>3 DEF RoutesAt
<1> QED
  BY <1>1, <1>4, <1>5

\* CorsExtension knows the methods of each path, of all modules.
LEMMA CorsForAppLists ==
    ASSUME RoutesTypes, Metas, Routed, Listing, phase = "stage1", corsState # "done",
           CorsForApp, UNCHANGED <<app, router>>,
           phase' \in {"stage1", "stage3"}, phase' = "stage3" => turn' = 1,
           \A m \in DOMAIN app : Listed(m)
    PROVE  Listing'
<1> DEFINE both(m) == ctrl[m] \o NewOptions(m)
<1>1. ASSUME NEW m \in DOMAIN app
      PROVE  /\ \A c \in ToSet(ctrl[m]) : \E d \in ToSet(ctrl'[m]) : SameRoute(c, d)
             /\ \A d \in ToSet(ctrl'[m]) :
                   \/ \E c \in ToSet(ctrl[m]) : SameRoute(c, d)
                   \/ /\ d.answersOptions /\ d.methods = <<"OPTIONS">>
                      /\ d.path \in OpenPaths(m)
  <2> DEFINE b == both(m)
             t == NewOptions(m)
             s == ctrl[m]
  <2>1. s \in Seq(Meta) /\ t \in Seq(Meta)
    BY NewOptionsAre DEF RoutesTypes
  <2>2. ctrl'[m] = [j \in DOMAIN b |-> Push(b[j], "cors")]
    BY DEF CorsForApp
  <2>3. \A c \in ToSet(t) : c.answersOptions /\ c.methods = <<"OPTIONS">> /\ c.path \in OpenPaths(m)
    BY NewOptionsList
  <2>4. b = s \o t
    OBVIOUS
  <2> HIDE DEF b, s, t
  <2>5. /\ b \in Seq(Meta)
        /\ \A j \in DOMAIN s : j \in DOMAIN b /\ b[j] = s[j]
        /\ \A j \in DOMAIN b : b[j] \in ToSet(s) \/ b[j] \in ToSet(t)
    <3>1. /\ b \in Seq(Meta)
          /\ \A j \in DOMAIN s : j \in DOMAIN b /\ b[j] = s[j]
          /\ \A j \in DOMAIN b : \/ j \in DOMAIN s /\ b[j] = s[j]
                                 \/ j - Len(s) \in DOMAIN t /\ b[j] = t[j - Len(s)]
      BY <2>1, <2>4
    <3>2. ASSUME NEW j \in DOMAIN b PROVE b[j] \in ToSet(s) \/ b[j] \in ToSet(t)
      <4>1. CASE j \in DOMAIN s /\ b[j] = s[j]
        BY <4>1 DEF ToSet
      <4>2. CASE j - Len(s) \in DOMAIN t /\ b[j] = t[j - Len(s)]
        BY <4>2 DEF ToSet
      <4> QED
        BY <3>1, <4>1, <4>2
    <3> QED
      BY <3>1, <3>2
  <2>6. ASSUME NEW j \in DOMAIN b PROVE SameRoute(b[j], Push(b[j], "cors"))
    <3>1. b[j] \in Meta
      BY <2>5
    <3>2. Added(b[j], Push(b[j], "cors"), <<"cors">>)
      BY <3>1, Additions DEF Name
    <3> QED
      BY <3>2 DEF Added, SameRoute
  <2>7. ASSUME NEW c \in ToSet(s) PROVE \E d \in ToSet(ctrl'[m]) : SameRoute(c, d)
    <3>1. PICK j \in DOMAIN s : c = s[j]
      BY DEF ToSet
    <3>2. j \in DOMAIN b /\ b[j] = c
      BY <2>5, <3>1
    <3>3. Push(b[j], "cors") \in ToSet(ctrl'[m])
      BY <2>2, <3>2 DEF ToSet
    <3> QED
      BY <2>6, <3>2, <3>3
  <2>8. ASSUME NEW d \in ToSet(ctrl'[m])
        PROVE  \/ \E c \in ToSet(s) : SameRoute(c, d)
               \/ d.answersOptions /\ d.methods = <<"OPTIONS">> /\ d.path \in OpenPaths(m)
    <3>1. PICK j \in DOMAIN b : d = Push(b[j], "cors")
      BY <2>2 DEF ToSet
    <3>2. SameRoute(b[j], d)
      BY <2>6, <3>1
    <3>3. b[j] \in ToSet(s) \/ b[j] \in ToSet(t)
      BY <2>5
    <3> QED
      BY <2>3, <3>2, <3>3 DEF SameRoute
  <2> QED
    BY <2>7, <2>8 DEF s
<1> HIDE DEF both
<1>2. /\ corsState' = "done"
      /\ allow' = [p \in UNION {OpenPaths(m) : m \in DOMAIN app} |-> Allowed(p)]
  BY DEF CorsForApp
<1>3. ASSUME NEW m \in DOMAIN app
      PROVE  /\ \A c \in ToSet(ctrl[m]) : ~c.answersOptions
             /\ \A p : p \in OpenPaths(m) <=> OpenIn(m, p)
             /\ \A p, x : (\E c \in RoutesAt(p, m) : x \in ToSet(c.methods))
                             <=> \E r \in ToSet(app[m].routes) : r.path = p /\ x \in ToSet(r.methods)
  BY OpenPathsAre
<1>4. DeclaredAreMade'
  <2> SUFFICES ASSUME NEW m \in DOMAIN app, NEW r \in ToSet(app[m].routes)
               PROVE  \E d \in ToSet(ctrl'[m]) :
                         ~d.answersOptions /\ d.methods = r.methods /\ d.path = r.path
    BY DEF DeclaredAreMade
  <2>1. PICK c \in ToSet(ctrl[m]) : ~c.answersOptions /\ c.methods = r.methods /\ c.path = r.path
    BY DEF Listing, DeclaredAreMade
  <2> QED
    BY <1>1, <2>1 DEF SameRoute
<1>5. MadeForOptions'
  <2> SUFFICES ASSUME NEW m \in DOMAIN app, NEW d \in ToSet(ctrl'[m]), d.answersOptions
               PROVE  d.methods = <<"OPTIONS">> /\ d.path \in DOMAIN allow'
    BY <1>2 DEF MadeForOptions
  <2>1. d.methods = <<"OPTIONS">> /\ d.path \in OpenPaths(m)
    BY <1>1, <1>3 DEF SameRoute
  <2> QED
    BY <1>2, <2>1
<1>6. AllowNames'
  <2> SUFFICES ASSUME NEW p \in DOMAIN allow', NEW x PROVE x \in allow'[p] <=> Named(x, p)
    BY DEF AllowNames, Named, OpenIn
  <2>1. allow'[p] = Allowed(p)
    BY <1>2
  <2>2. x \in Allowed(p) <=>
           \/ x = "OPTIONS"
           \/ \E m \in DOMAIN app : p \in OpenPaths(m) /\ \E c \in RoutesAt(p, m) : x \in ToSet(c.methods)
    BY DEF Allowed
  <2> QED
    BY <1>3, <2>1, <2>2 DEF Named
<1>7. RouterHasAll'
  <2>1. ASSUME NEW m \in DOMAIN app PROVE ~Ready(m)'
    <3>1. m \in Nat /\ m >= 1
      BY AppIs
    <3> QED
      BY <3>1 DEF Ready
  <2> QED
    BY <2>1 DEF RouterHasAll
<1>8. RouterHasOptions'
  BY DEF Routed, RouterHasOptions
<1> QED
  BY <1>4, <1>5, <1>6, <1>7, <1>8 DEF Listing

\* CorsExtension waits for the last module.
LEMMA RunCorsLists ==
    ASSUME RoutesTypes, Turns, Metas, Routed, Listing, RunCors PROVE Listing'
<1>1. /\ phase = "stage1" /\ "cors" \notin ran /\ "rest" \in ran
      /\ ran' = ran \union {"cors"} /\ UNCHANGED <<app, phase, turn, router>>
  BY DEF RunCors, Runs, Ran
<1>2. corsState # "done"
  BY <1>1 DEF Turns
<1>3. CASE turn = Len(app)
  <2>1. CorsForApp
    BY <1>3 DEF RunCors
  <2>2. \A m \in DOMAIN app : Listed(m)
    <3>1. Len(app) \in Nat /\ DOMAIN app = 1..Len(app)
      BY AppIs
    <3> QED
      BY <1>1, <1>3, <3>1 DEF Listed
  <2> QED
    BY <1>1, <1>2, <2>1, <2>2, CorsForAppLists
<1>4. CASE turn # Len(app)
  <2>1. UNCHANGED <<ctrl, allow>>
    BY <1>4 DEF RunCors
  <2>2. ASSUME NEW m \in DOMAIN app
        PROVE  /\ DOMAIN ctrl'[m] = DOMAIN ctrl[m]
               /\ \A j \in DOMAIN ctrl[m] : SameRoute(ctrl[m][j], ctrl'[m][j])
               /\ Listed(m)' => Listed(m)
               /\ Ready(m)' => Ready(m)
    BY <1>1, <2>1 DEF SameRoute, Listed, Ready
  <2> QED
    BY <1>1, <1>2, <2>1, <2>2, SameIsListed
<1> QED
  BY <1>3, <1>4

\* Stage 1 of a module is over.
LEMMA RunDispatcherLists ==
    ASSUME RoutesTypes, Listing, RunDispatcher PROVE Listing'
<1>1. /\ phase = "stage1" /\ "rest" \in ran /\ ran' = ran \union {"dispatcher"}
      /\ UNCHANGED <<app, phase, turn, ctrl, corsState, allow, router>>
  BY DEF RunDispatcher, Runs, Ran
<1>2. ASSUME NEW m \in DOMAIN app
      PROVE  /\ DOMAIN ctrl'[m] = DOMAIN ctrl[m]
             /\ \A j \in DOMAIN ctrl[m] : SameRoute(ctrl[m][j], ctrl'[m][j])
             /\ Listed(m)' => Listed(m)
             /\ Ready(m)' => Ready(m)
  BY <1>1 DEF SameRoute, Listed, Ready
<1> QED
  BY <1>1, <1>2, SameIsListed

\* The extensions go on to the next module.
LEMMA NextModuleLists ==
    ASSUME RoutesTypes, Listing, NextModule PROVE Listing'
<1>1. /\ phase = "stage1" /\ "dispatcher" \in ran /\ turn' = turn + 1 /\ ran' = {}
      /\ UNCHANGED <<app, phase, ctrl, corsState, allow, router>>
  BY DEF NextModule
<1>2. ASSUME NEW m \in DOMAIN app
      PROVE  /\ DOMAIN ctrl'[m] = DOMAIN ctrl[m]
             /\ \A j \in DOMAIN ctrl[m] : SameRoute(ctrl[m][j], ctrl'[m][j])
             /\ Listed(m)' => Listed(m)
             /\ Ready(m)' => Ready(m)
  <2>1. m \in Nat /\ turn \in Nat
    BY AppIs DEF RoutesTypes
  <2>2. Listed(m)' => Listed(m)
    BY <1>1, <2>1 DEF Listed
  <2> QED
    BY <1>1, <2>2 DEF SameRoute, Ready
<1> QED
  BY <1>1, <1>2, SameIsListed

\* Stage 1 is over, after CorsExtension if it had to wait.
LEMMA EndStage1Lists ==
    ASSUME RoutesTypes, Metas, Routed, Listing, EndStage1 PROVE Listing'
<1>1. /\ phase = "stage1" /\ "dispatcher" \in ran /\ turn = Len(app)
      /\ phase' = "stage3" /\ turn' = 1 /\ UNCHANGED <<app, ran, router>>
  BY DEF EndStage1
<1>2. Len(app) \in Nat /\ DOMAIN app = 1..Len(app)
  BY AppIs
<1>3. \A m \in DOMAIN app : Listed(m)
  BY <1>1, <1>2 DEF Listed
<1>4. CASE corsState = "pending"
  <2>1. CorsForApp
    BY <1>4 DEF EndStage1
  <2> QED
    BY <1>1, <1>3, <1>4, <2>1, CorsForAppLists
<1>5. CASE corsState # "pending"
  <2>1. UNCHANGED <<ctrl, allow, corsState>>
    BY <1>5 DEF EndStage1
  <2>2. ASSUME NEW m \in DOMAIN app
        PROVE  /\ DOMAIN ctrl'[m] = DOMAIN ctrl[m]
               /\ \A j \in DOMAIN ctrl[m] : SameRoute(ctrl[m][j], ctrl'[m][j])
               /\ Listed(m)' => Listed(m)
               /\ Ready(m)' => Ready(m)
    <3>1. m \in Nat /\ m >= 1
      BY <1>2
    <3> QED
      BY <1>1, <1>3, <2>1, <3>1 DEF SameRoute, Ready
  <2> QED
    BY <1>1, <2>1, <2>2, SameIsListed
<1> QED
  BY <1>4, <1>5

\* Stage 3 registers each route of the module for all that it is for.
LEMMA Stage3Lists ==
    ASSUME RoutesTypes, Listing, Stage3 PROVE Listing'
<1>1. CASE phase' = "failed"
  BY <1>1 DEF Listing
<1>2. CASE phase' # "failed"
  <2> DEFINE metas == ctrl[turn]
  <2>1. /\ phase = "stage3" /\ turn' = turn + 1 /\ UNCHANGED <<app, ctrl, corsState, allow>>
        /\ phase' = IF turn = Len(app) THEN "serving" ELSE phase
        /\ Refusals(metas) = {} /\ router' = Registered(metas)
    BY <1>2 DEF Stage3, Fails
  <2>2. /\ Len(app) \in Nat \ {0} /\ DOMAIN app = 1..Len(app) /\ turn \in DOMAIN app
        /\ metas \in Seq(Meta)
    BY <2>1, AppIs DEF RoutesTypes
  <2>3. ~Conflict(metas) /\ \A c \in ToSet(metas) : Keys(c) \intersect DOMAIN router = {}
    BY <2>1 DEF Refusals
  <2>4. /\ DOMAIN router' = DOMAIN router \union UNION {Keys(c) : c \in ToSet(metas)}
        /\ \A k \in DOMAIN router : router'[k] = router[k]
    BY <2>1 DEF Registered
  <2>5. ASSUME NEW k, k \notin DOMAIN router, NEW c \in ToSet(metas), k \in Keys(c)
        PROVE  router'[k].answersOptions = c.answersOptions
    <3> DEFINE d == CHOOSE x \in ToSet(metas) : k \in Keys(x)
    <3>1. d \in ToSet(metas) /\ k \in Keys(d)
      BY <2>5
    <3>2. router'[k] = HandlerOf(d, turn)
      BY <2>1, <2>5 DEF Registered
    <3> HIDE DEF d
    <3>3. PICK j \in DOMAIN metas : c = metas[j]
      BY <2>5 DEF ToSet
    <3>4. PICK l \in DOMAIN metas : d = metas[l]
      BY <3>1 DEF ToSet
    <3>8. PICK i \in DOMAIN metas[j].methods : k \in KeysAt(metas[j], i)
      BY <2>5, <3>3 DEF Keys
    <3>9. PICK n \in DOMAIN metas[l].methods : k \in KeysAt(metas[l], n)
      BY <3>1, <3>4 DEF Keys
    <3>5. KeysAt(metas[j], i) \intersect KeysAt(metas[l], n) # {}
      BY <3>8, <3>9
    <3>6. <<j, i>> = <<l, n>>
      BY <2>3, <3>5, Zenon DEF Conflict
    <3>7. c = d
      BY <3>3, <3>4, <3>6
    <3> QED
      BY <3>2, <3>7 DEF HandlerOf
  <2>6. DeclaredAreMade'
    BY <2>1 DEF Listing, DeclaredAreMade, Listed
  <2>7. MadeForOptions' /\ AllowNames'
    BY <2>1 DEF Listing, MadeForOptions, AllowNames, Named, OpenIn
  <2>8. RouterHasAll'
    <3> SUFFICES ASSUME NEW m \in DOMAIN app, Ready(m)', NEW c \in ToSet(ctrl[m]), NEW k \in Keys(c)
                 PROVE  k \in DOMAIN router' /\ router'[k].answersOptions = c.answersOptions
      BY <2>1 DEF RouterHasAll, Keys, KeysAt, Targets
    <3>1. m < turn \/ m = turn
      BY <2>1, <2>2 DEF Ready
    <3>2. CASE m < turn
      <4>1. k \in DOMAIN router /\ router[k].answersOptions = c.answersOptions
        BY <2>1, <3>2 DEF Listing, RouterHasAll, Ready
      <4> QED
        BY <2>4, <4>1
    <3>3. CASE m = turn
      <4>1. k \notin DOMAIN router
        BY <2>3, <3>3
      <4> QED
        BY <2>4, <2>5, <3>3, <4>1
    <3> QED
      BY <3>1, <3>2, <3>3
  <2>9. RouterHasOptions'
    <3> SUFFICES ASSUME NEW k \in DOMAIN router', router'[k].answersOptions
                 PROVE  k[1] = "OPTIONS" /\ k[2] \in DOMAIN allow
      BY <2>1 DEF RouterHasOptions
    <3>1. CASE k \in DOMAIN router
      BY <2>1, <2>4, <3>1 DEF Listing, RouterHasOptions
    <3>2. CASE k \notin DOMAIN router
      <4>1. PICK c \in ToSet(metas) : k \in Keys(c)
        BY <2>4, <3>2
      <4>2. c.answersOptions
        BY <2>5, <3>2, <4>1
      <4>3. c.methods = <<"OPTIONS">> /\ c.path \in DOMAIN allow
        BY <2>1, <2>2, <4>2 DEF Listing, MadeForOptions
      <4>4. k \in {"OPTIONS"} \X {c.path}
        <5>1. PICK i \in DOMAIN c.methods : k \in KeysAt(c, i)
          BY <4>1 DEF Keys
        <5>2. c.methods[i] = "OPTIONS"
          BY <4>3, <5>1
        <5> QED
          BY <5>1, <5>2 DEF KeysAt, Targets
      <4> QED
        BY <4>3, <4>4
    <3> QED
      BY <3>1, <3>2
  <2> QED
    BY <2>6, <2>7, <2>8, <2>9 DEF Listing
<1> QED
  BY <1>1, <1>2

\* Every step of the start of an application keeps what is known of its routes.
LEMMA RoutesList ==
    ASSUME RoutesTypes, Turns, Metas, Routed, Listing, RoutesNext PROVE Listing'
BY RunRestRouteLists, RunInterceptorLists, RunBodyParserLists, RunSessionCookieLists,
   RunCorsLists, RunDispatcherLists, NextModuleLists, EndStage1Lists, Stage3Lists DEF RoutesNext

\* No route is made when an application starts.
LEMMA ListingStarts == RoutesInit => Listing
<1> SUFFICES ASSUME RoutesInit PROVE Listing
  OBVIOUS
<1>1. /\ app \in Apps /\ phase = "stage1" /\ turn = 1 /\ ran = {} /\ corsState = "absent"
      /\ ctrl = [m \in DOMAIN app |-> <<>>] /\ DOMAIN router = {} /\ DOMAIN allow = {}
  BY DEF RoutesInit
<1>2. app \in Seq(AppModule)
  BY <1>1, AppsAssumption
<1>3. \A m \in DOMAIN app : m \in Nat /\ m >= 1
  BY <1>2
<1>4. \A m \in DOMAIN app : ~Listed(m) /\ ~Ready(m)
  BY <1>1, <1>3 DEF Listed, Ready
<1>5. \A m \in DOMAIN app : ToSet(ctrl[m]) = {}
  BY <1>1 DEF ToSet
<1> QED
  BY <1>1, <1>4, <1>5
     DEF Listing, DeclaredAreMade, MadeForOptions, AllowNames, RouterHasAll, RouterHasOptions

\* A request leaves the routes what they are.
LEMMA ListingStays == ASSUME RoutesTypes, Listing, UNCHANGED routesVars PROVE Listing'
<1>1. UNCHANGED <<app, phase, turn, ran, ctrl, corsState, allow, router>>
  BY DEF routesVars
<1>2. CASE phase = "failed"
  BY <1>1, <1>2 DEF Listing
<1>3. CASE phase # "failed"
  <2>1. \A m \in DOMAIN app : /\ Listed(m)' => Listed(m)
                              /\ Ready(m)' => Ready(m)
    BY <1>1 DEF Listed, Ready
  <2>2. \A c : SameRoute(c, c)
    BY DEF SameRoute
  <2> QED
    BY <1>1, <1>3, <2>1, <2>2, SameIsListed
<1> QED
  BY <1>2, <1>3

\* What the answer to OPTIONS names is what the application serves: no module has
\* a route for OPTIONS of its own where a route of CorsExtension answers.
LEMMA AllowFollows ==
    ASSUME RoutesTypes, RequestInv, FollowInv, Listing PROVE AllowIsComplete
<1> SUFFICES ASSUME passed.called, handler.answersOptions
             PROVE  res.wire.headers["allow"] =
                       {"OPTIONS"} \union
                          UNION {ToSet(RouteAt(d).methods) : d \in {e \in Declared : RouteAt(e).path = path}}
  BY DEF AllowIsComplete
<1> DEFINE all == {"OPTIONS"} \union
                     UNION {ToSet(RouteAt(d).methods) : d \in {e \in Declared : RouteAt(e).path = path}}
<1>1. at \in Nat /\ at # 0
  BY DEF RequestInv, RequestTypes, InChain
<1>2. pc # "idle" /\ phase = "serving" /\ <<Served, path>> \in DOMAIN router
      /\ handler = router[<<Served, path>>]
  BY <1>1 DEF FollowInv, Reaching
<1>3. DeclaredAreMade /\ AllowNames /\ RouterHasAll /\ RouterHasOptions
  BY <1>2 DEF Listing
<1>4. Served = "OPTIONS" /\ path \in DOMAIN allow
  BY <1>2, <1>3 DEF RouterHasOptions
<1>5. res.wire.headers["allow"] = allow[path]
  BY <1>4 DEF FollowInv, Optioned, AllowHeader
<1>6. \A m \in DOMAIN app : \A r \in ToSet(app[m].routes) :
         r.path = path => "OPTIONS" \notin ToSet(r.methods)
  <2> SUFFICES ASSUME NEW m \in DOMAIN app, NEW r \in ToSet(app[m].routes), r.path = path,
                      "OPTIONS" \in ToSet(r.methods)
               PROVE  FALSE
    OBVIOUS
  <2>1. PICK c \in ToSet(ctrl[m]) : ~c.answersOptions /\ c.methods = r.methods /\ c.path = r.path
    BY <1>2, <1>3 DEF DeclaredAreMade, Listed
  <2>2. PICK i \in DOMAIN c.methods : c.methods[i] = "OPTIONS"
    BY <2>1 DEF ToSet
  <2>3. <<"OPTIONS", path>> \in KeysAt(c, i)
    BY <2>1, <2>2 DEF KeysAt, Targets
  <2>4. <<"OPTIONS", path>> \in Keys(c)
    BY <2>3 DEF Keys
  <2>5. router[<<"OPTIONS", path>>].answersOptions = c.answersOptions
    BY <1>2, <1>3, <2>4 DEF RouterHasAll, Ready
  <2> QED
    BY <1>2, <1>4, <2>1, <2>5
<1>7. ASSUME NEW x PROVE Named(x, path) <=> x \in all
  <2>1. Named(x, path) <=>
           x = "OPTIONS" \/ \E m \in DOMAIN app : \E r \in ToSet(app[m].routes) :
                               r.path = path /\ x \in ToSet(r.methods)
    BY <1>6 DEF Named, OpenIn
  <2>2. ASSUME NEW m \in DOMAIN app, NEW r \in ToSet(app[m].routes), r.path = path,
               x \in ToSet(r.methods)
        PROVE  x \in all
    <3>1. PICK j \in DOMAIN app[m].routes : r = app[m].routes[j]
      BY DEF ToSet
    <3>2. <<m, j>> \in Declared /\ RouteAt(<<m, j>>) = r
      BY <3>1 DEF Declared, RouteAt
    <3> QED
      BY <2>2, <3>2
  <2>3. ASSUME x \in all, x # "OPTIONS"
        PROVE  \E m \in DOMAIN app : \E r \in ToSet(app[m].routes) :
                  r.path = path /\ x \in ToSet(r.methods)
    <3>1. PICK d \in Declared : RouteAt(d).path = path /\ x \in ToSet(RouteAt(d).methods)
      BY <2>3
    <3>2. PICK m \in DOMAIN app : d \in {m} \X DOMAIN app[m].routes
      BY <3>1 DEF Declared
    <3>3. RouteAt(d) \in ToSet(app[m].routes)
      BY <3>2 DEF RouteAt, ToSet
    <3> QED
      BY <3>1, <3>3
  <2> QED
    BY <2>1, <2>2, <2>3
<1>8. ASSUME NEW x PROVE x \in allow[path] <=> x \in all
  BY <1>3, <1>4, <1>7 DEF AllowNames
<1>9. allow[path] = all
  BY <1>8
<1> QED
  BY <1>5, <1>9

-----------------------------------------------------------------------------
(* The invariant and the property.                                          *)

FullInv == Inv /\ Listing /\ FollowInv

\* A request has not begun when an application starts.
LEMMA FollowStarts == Init => FollowInv
BY DEF Init, FollowInv, Reaching, Course, Remembered, Optioned, NotCalled

\* Every step, of the start of an application or of a request, keeps all of it.
LEMMA FullKeeps == FullInv /\ [Next]_vars => FullInv'
<1> SUFFICES ASSUME FullInv, [Next]_vars PROVE FullInv'
  OBVIOUS
<1>1. Inv /\ Inv' /\ Listing /\ FollowInv
  BY Keeps DEF FullInv
<1>2. RoutesTypes /\ Turns /\ Metas /\ Routed /\ RequestInv /\ Unfound /\ Scripted
  BY <1>1 DEF Inv
<1>3. CASE RoutesNext /\ UNCHANGED requestVars
  <2>1. phase # "serving"
    BY <1>3 DEF RoutesNext, RunRestRoute, RunInterceptor, RunBodyParser, RunSessionCookie,
         RunCors, RunDispatcher, NextModule, EndStage1, Stage3, Runs
  <2>2. Listing'
    BY <1>1, <1>2, <1>3, RoutesList
  <2>3. FollowInv'
    BY <1>1, <1>2, <1>3, <2>1, StartFollows
  <2> QED
    BY <1>1, <2>2, <2>3 DEF FullInv
<1>4. CASE Ask \/ AskHead \/ RequestNext
  <2>1. UNCHANGED routesVars
    BY <1>2, <1>4, RequestKeeps
  <2>2. OptionsOnly
    BY <1>1 DEF Listing, RouterHasOptions, OptionsOnly
  <2>3. Listing'
    BY <1>1, <1>2, <2>1, ListingStays
  <2>4. FollowInv'
    BY <1>1, <1>2, <1>4, <2>2, RequestFollows
  <2> QED
    BY <1>1, <2>3, <2>4 DEF FullInv
<1>5. CASE UNCHANGED vars
  <2>1. UNCHANGED routesVars
    BY <1>5 DEF vars
  <2>2. Listing' /\ FollowInv'
    BY <1>1, <1>2, <1>5, <2>1, ListingStays, StaysFollowed
  <2> QED
    BY <1>1, <2>2 DEF FullInv
<1> QED
  BY <1>3, <1>4, <1>5 DEF Next

\* A client that asks HEAD is told what GET told it, status, headers, and how many
\* errors were logged, unless the controller wrote the answer itself; and the
\* answer to OPTIONS names every method that any module serves at the path.
THEOREM HeadAndOptionsAlwaysFollow == Spec => []HeadAndOptionsFollow
<1>1. Init => FullInv
  BY Starts, ListingStarts, FollowStarts DEF Init, FullInv
<1>2. FullInv => HeadAndOptionsFollow
  <2> SUFFICES ASSUME FullInv PROVE HeadAndOptionsFollow
    OBVIOUS
  <2>1. RoutesTypes /\ RequestInv /\ FollowInv /\ Listing
    BY DEF FullInv, Inv
  <2>2. OptionsOnly
    BY <2>1 DEF Listing, RouterHasOptions, OptionsOnly
  <2> QED
    BY <2>1, <2>2, HeadFollows, AllowFollows DEF HeadAndOptionsFollow
<1> QED
  BY <1>1, <1>2, FullKeeps, PTL DEF Spec
=============================================================================

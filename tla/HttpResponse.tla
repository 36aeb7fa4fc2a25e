----------------------------- MODULE HttpResponse -----------------------------
(***************************************************************************)
(* The response that user code and the request pipeline write to: either   *)
(* the ServerResponse of Node (external), or, for a HEAD request, the      *)
(* NullBodyResponse (packages/rest/src/services/null-body-response.ts) that*)
(* stands before it.  The wrapper is itself a ServerResponse and inherits  *)
(* what it does not override: writeHead, appendHeader, headersSent.        *)
(*                                                                         *)
(* An operation on a response that has thrown does nothing: that is how an *)
(* exception leaves a sequence of calls.                                   *)
(***************************************************************************)
EXTENDS Naturals

NoHeaders == <<>>
Header(name, value) == [n \in {name} |-> value]
Over(new, old) ==
    [n \in DOMAIN new \union DOMAIN old |-> IF n \in DOMAIN new THEN new[n] ELSE old[n]]

\* What the client gets.
NoAnswer == [sent |-> FALSE, ended |-> FALSE, status |-> 0, headers |-> NoHeaders,
             length |-> "unknown"]

NewResponse(wrapped) ==
    [wrapped |-> wrapped,   \* a NullBodyResponse
     head    |-> FALSE,     \* writeHead has been called on the response itself
     own     |-> NoHeaders, \* the headers set on the response itself
     status  |-> 200,
     chunked |-> FALSE,     \* #isChunked
     cookie  |-> "none",    \* what the hook of SessionCookie will add
     hooked  |-> FALSE,     \* SessionCookie has replaced writeHead
     threw   |-> "none",    \* the exception under way
     wire    |-> NoAnswer]

Throws(r, error) == [r EXCEPT !.threw = error]
Quiet(r) == r.threw = "none"
HeadersSent(r) == r.head
HeaderOf(r, name) == IF name \in DOMAIN r.own THEN r.own[name] ELSE "none"
SetStatus(r, status) == IF Quiet(r) THEN [r EXCEPT !.status = status] ELSE r

\* The wrapper sets a header twice, on itself and on the real response.
SetHeader(r, name, value) ==
    LET set == [r EXCEPT !.own = Over(Header(name, value), @)]
    IN  IF ~Quiet(r) THEN r
        ELSE IF r.head THEN Throws(r, "headersSent")
        ELSE IF ~r.wrapped THEN set
        ELSE IF r.wire.sent THEN Throws(set, "headersSent")
        ELSE [set EXCEPT !.wire.headers = Over(Header(name, value), @)]

\* Not overridden by the wrapper, which forwards the header when it ends.
AppendHeader(r, name, value) ==
    IF ~Quiet(r) THEN r
    ELSE IF r.head THEN Throws(r, "headersSent")
    ELSE [r EXCEPT !.own = Over(Header(name, value), @)]

-----------------------------------------------------------------------------
\* The real response sends its first line and its headers.
Flushed(r, status, headers) ==
    [r EXCEPT !.wire.sent = TRUE, !.wire.status = status, !.wire.headers = headers]

\* updateSessionCookie, by the hook that SessionCookie puts before writeHead.
WithCookie(r) ==
    IF r.hooked /\ r.cookie # "none" THEN SetHeader(r, "set-cookie", r.cookie) ELSE r

\* writeHead keeps headers that it is given only if others were set before.
WriteHead(r, status, given) ==
    LET hooked  == WithCookie(r)
        headers == Over(given, hooked.own)
        made    == [hooked EXCEPT !.status = status, !.head = TRUE]
    IN  IF ~Quiet(r) THEN r
        ELSE IF r.head THEN Throws(r, "headersSent")
        ELSE IF ~r.wrapped THEN Flushed([made EXCEPT !.own = headers], status, headers)
        ELSE IF hooked.own = NoHeaders THEN made
        ELSE IF hooked.wire.sent /\ given # NoHeaders THEN Throws(hooked, "headersSent")
        ELSE [made EXCEPT !.own = headers, !.wire.headers = Over(given, @)]

\* The headers go with the first chunk; the wrapper drops the chunk.
Write(r) ==
    IF ~Quiet(r) THEN r
    ELSE IF r.wrapped THEN [r EXCEPT !.chunked = TRUE]
    ELSE LET begun == IF r.head THEN r ELSE WriteHead(r, r.status, NoHeaders)
         IN  [begun EXCEPT !.wire.length = "chunked"]

Closed(r, length) ==
    [r EXCEPT !.wire.ended = TRUE, !.wire.length = IF @ = "unknown" THEN length ELSE @]

EndReal(r, body) ==
    IF r.wire.ended THEN r
    ELSE IF r.head THEN Closed(r, "chunked")
    ELSE Closed(WriteHead(r, r.status, NoHeaders), body)

\* A mistake: the headers that were only set on the wrapper, and the length of
\* the body that is dropped, are left out.
EndWrapperBare(r, body) ==
    IF r.wire.sent THEN [r EXCEPT !.wire.ended = TRUE]
    ELSE Closed(Flushed(r, r.status, r.wire.headers), "none")

\* end() of the wrapper: its headers and its status are forwarded once, and
\* what it was given is only counted.
EndWrapper(r, body) ==
    IF r.wire.sent THEN [r EXCEPT !.wire.ended = TRUE]
    ELSE Closed(Flushed(r, r.status, Over(r.own, r.wire.headers)),
                IF r.chunked THEN "chunked" ELSE body)

End(r, body) ==
    IF ~Quiet(r) THEN r
    ELSE IF r.wrapped THEN EndWrapper(r, body) ELSE EndReal(r, body)

-----------------------------------------------------------------------------
(* BaseRequestContext and the helpers for a web Response.  A body is told   *)
(* by its length: that of a text, of JSON, of an error, or "empty".         *)

Send(r, body) == End(r, body)
SendJson(r, body) == Send(SetHeader(r, "content-type", "json"), body)
Redirect(r) == End(WriteHead(r, 302, Header("location", "there")), "empty")
ApplyResponse(r, status) ==
    End(WriteHead(AppendHeader(r, "x-from", "response"), status, Header("content-type", "text")),
        "text")
=============================================================================

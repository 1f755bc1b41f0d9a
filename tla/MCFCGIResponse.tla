---------------------------- MODULE MCFCGIResponse ---------------------------
(* A caller makes up to MaxCalls calls and writes the response out.        *)
EXTENDS FCGIResponse, SequencesExt, FiniteSetsExt

CONSTANTS MaxCalls, MaxLen

VARIABLE calls

vars == <<responseVars, calls>>

(* Distinct bytes, so that a lost, doubled or swapped one shows.           *)
MCStrings == {[i \in 1 .. n |-> 100 + i] : n \in 0 .. MaxLen}

MCInit == Init /\ calls = <<>>

Call(name, s) == /\ cashed = <<>> /\ Len(calls) < MaxCalls
                 /\ calls' = Append(calls, [name |-> name, arg |-> s])

MCNext ==
  \/ \E s \in Strings : \/ Call("header", s) /\ setHeader(s)
                        \/ Call("content", s) /\ setContent(s)
                        \/ Call("raw", s) /\ setRaw(s)
                        \/ Call("error", s) /\ setError(s)
  \/ cashed = <<>> /\ writeOut /\ UNCHANGED calls

MCSpec == MCInit /\ [][MCNext]_vars

Written == cashed # <<>>

(* What the receiver of the records reads of a stream.                     *)
Decoded(type) ==
  FlattenSeq([k \in 1 .. Len(cashed) |->
    IF cashed[k].type = type THEN SubSeq(cashed[k].body, 1, cashed[k].len)
                             ELSE <<>>])

(* The argument of the last call of a name after call k, and what it means *)
(* for the output.                                                         *)
LastCall(name, k) ==
  LET at == {i \in k + 1 .. Len(calls) : calls[i].name = name}
  IN  IF at = {} THEN 0 ELSE Max(at)

ArgOf(i) == IF i = 0 THEN <<>> ELSE calls[i].arg

Expected ==
  LET raw == LastCall("raw", 0)
      header == LastCall("header", raw)
      content == LastCall("content", raw)
  IN  IF header = 0 /\ content = 0 THEN ArgOf(raw)
      ELSE (IF header = 0 THEN <<>> ELSE ArgOf(header) \o EndOfHeader)
           \o ArgOf(content)

(* Whatever the order of the setters, the peer reads what they last said:  *)
(* a raw output stands alone, a header or content set after it replaces    *)
(* it, although raw output and header share m_str1, and no byte is lost,   *)
(* doubled or moved by cutting it into records (fastcgi_response.cpp).     *)
OutputAsCalled ==
  Written => /\ Decoded("STDOUT") = Expected
             /\ Decoded("STDERR") = ArgOf(LastCall("error", 0))

=============================================================================

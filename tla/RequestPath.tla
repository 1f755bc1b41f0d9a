----------------------------- MODULE RequestPath -----------------------------
(***************************************************************************)
(* The way of a request through Connection::received, up to the searcher:  *)
(* it arrives in pieces and is parsed after each of them (FCGIRequest),    *)
(* the contents of its records are decoded (FCGIContent), and the query    *)
(* among its parameters is unescaped (Unescape).  Daemon models the same   *)
(* for many peers at once, without the contents.                           *)
(***************************************************************************)
EXTENDS FCGIRequest, FCGIContent, Unescape, FiniteSets

CONSTANTS
  QueryString,   \* the name "QUERY_STRING"
  Prefix         \* of queries that are not for the searcher, "padding"

VARIABLES
  m, arrived,    \* the request and how much of it is there
  answer         \* what m_response does for it

vars == <<m, arrived, answer, contentVars, unescapeVars>>

(* The records parse sees for the contents the web server sends.           *)
Framed(contents) ==
  <<[type |-> "BEGIN", id |-> 1, len |-> BodyLen, pad |-> 0]>> \o
  [k \in DOMAIN contents |-> [type |-> contents[k].type, id |-> 1,
                              len |-> Len(contents[k].content), pad |-> 0]]

Arrive ==
  /\ arrived < Total(m)
  /\ arrived' = arrived + 1
  /\ UNCHANGED <<m, answer, contentVars, unescapeVars>>

(* The contents of an accepted request are decoded.                        *)
setup ==
  /\ parse(m, 0, arrived) = {"Ready"}
  /\ Decode
  /\ UNCHANGED <<m, arrived, answer, unescapeVars>>

(* m_response looks for the query.  Without one the answer is empty, a     *)
(* query that begins with the prefix is answered by a dump, any other is   *)
(* unescaped and searched.                                                 *)
m_response ==
  /\ records # <<>> /\ rec > Len(records) /\ answer = "none yet"
  /\ \/ /\ QueryString \notin DOMAIN m_params
        /\ answer' = "empty"
        /\ UNCHANGED <<arg, returned>>
     \/ /\ QueryString \in DOMAIN m_params
        /\ IsPrefix(Prefix, m_params[QueryString])
        /\ answer' = "dump"
        /\ UNCHANGED <<arg, returned>>
     \/ /\ QueryString \in DOMAIN m_params
        /\ ~ IsPrefix(Prefix, m_params[QueryString])
        /\ answer' = "search"
        /\ arg' = m_params[QueryString]
        /\ returned' = FALSE
  /\ UNCHANGED <<m, arrived, contentVars, pos_prev, ret_val>>

search == unescape /\ UNCHANGED <<m, arrived, answer, contentVars>>

Next == Arrive \/ setup \/ m_response \/ search
=============================================================================

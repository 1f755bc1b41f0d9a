------------------------------ MODULE MCDaemon ------------------------------
(* Instances of Daemon: the scripts of the clients, scaled down.           *)
EXTENDS DaemonService, TLC

CONSTANTS c1, c2

Rec(type, len) == [type |-> type, id |-> 1, len |-> len, pad |-> 0]

Begin == Rec("BEGIN", BodyLen)

(* What a web server sends for a GET: an empty STDIN ends the request.     *)
Get == <<Begin, Rec("PARAMS", 1), Rec("STDIN", 0)>>

(* A request with a body: parse accepts it before the closing record.      *)
Post == <<Begin, Rec("STDIN", 1), Rec("STDIN", 0)>>

Gets == (c1 :> Get @@ c2 :> Get)
PostAndGet == (c1 :> Post @@ c2 :> Get)
OnePost == (c1 :> Post)

None == {}
OneFD == {1}
TwoFDs == {1, 2}
One == {c1}
Both == {c1, c2}
=============================================================================

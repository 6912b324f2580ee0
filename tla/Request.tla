------------------------------ MODULE Request ------------------------------
(***************************************************************************)
(* Requests to one server on one loop: dns_request_create, its timeouts,   *)
(* retries, cancellation and callback (lib/dns/request.c) over dispatch    *)
(* entries (lib/dns/dispatch.c).  Requests over TCP share a connection;    *)
(* requests over UDP have a socket each.                                   *)
(*                                                                         *)
(* All of it runs on the loop that created the request (every function     *)
(* tests the thread), so a handler is one step; what is left open is when  *)
(* the network's events, the loop's posted callbacks and the owners' calls *)
(* come.  Handlers call each other through callbacks, hence the operators  *)
(* that map the objects in memory to what they are after a call.           *)
(***************************************************************************)
EXTENDS Integers, Sequences, SequencesExt, FiniteSets, Functions, TLC

CONSTANTS
  RqRequests,   \* the requests
  RqTcp,        \* those over TCP
  RqIds,        \* the message IDs
  RqFixed,      \* request -> the ID it must have (DNS_REQUESTOPT_FIXEDID), or 0
  RqRetries,    \* udpretries
  RqRebinds,    \* how many other UDP ports are tried: 5 in setup_socket
  RqScenarios   \* bounds of a behaviour: [made, the requests that are made; canceled,
                \* those that may be canceled; faults, how many failures of the
                \* network; shut, may the request manager be shut down]

ASSUME RequestAssumption ==
  /\ RqTcp \subseteq RqRequests
  /\ RqIds \subseteq Nat \ {0}
  /\ RqFixed \in [RqRequests -> RqIds \cup {0}]
  /\ RqRetries \in Nat /\ RqRebinds \in Nat
  /\ \A s \in RqScenarios :
       s \in [made : SUBSET RqRequests, canceled : SUBSET RqRequests, faults : Nat,
              shut : BOOLEAN]

VARIABLES
  rq,        \* the requests that exist, by name
  rqEntry,   \* their dispatch entries, by the name of the request
  rqDisp,    \* the TCP dispatches, by the name of the request that made them
  rqJobs,    \* the callbacks posted to the loop, in order
  rqAsked,   \* the queries the server has and did not answer: [req, id, disp]
  rqFate,    \* request -> "unborn", "refused", "born", or what it was told
  rqFaults,  \* the faults so far
  rqRcu,     \* the read-side sections the loop has left open
  rqShut,    \* requestmgr->shuttingdown: "no", "set", or "told" the loop
  rqScenario, \* one of RqScenarios
  rqFailed   \* the assertions that have failed

rqvars == <<rq, rqEntry, rqDisp, rqJobs, rqAsked, rqFate, rqFaults, rqRcu, rqShut, rqScenario,
            rqFailed>>

RequestInit ==
  /\ rq = <<>> /\ rqEntry = <<>> /\ rqDisp = <<>>
  /\ rqJobs = <<>> /\ rqAsked = {}
  /\ rqFate = [x \in RqRequests |-> "unborn"]
  /\ rqFaults = 0 /\ rqRcu = 0 /\ rqShut = "no" /\ rqFailed = {}
  /\ rqScenario \in RqScenarios

\* The objects in memory, and a step to what they become.
RqHeap == [r |-> rq, e |-> rqEntry, d |-> rqDisp, q |-> rqJobs, a |-> rqAsked, f |-> rqFailed]

RqBecomes(next) ==
  \E h \in {next} :
    /\ rq' = h.r /\ rqEntry' = h.e /\ rqDisp' = h.d /\ rqJobs' = h.q /\ rqFailed' = h.f
    /\ rqAsked' = {m \in h.a : m.req \in RqTcp => m.disp \in DOMAIN h.d}

RqWithout(fun, x) == Restrict(fun, DOMAIN fun \ {x})
RqRequire(h, p, where) == IF p THEN h ELSE [h EXCEPT !.f = @ \cup {where}]
RqPost(h, job, x) == [h EXCEPT !.q = Append(@, [job |-> job, req |-> x])]

----------------------------------------------------------------------------
(* Dispatches and their entries *)

\* dns_dispatch_detach, and dispatch_destroy with the last reference.
RqDetachDisp(h, d) ==
  IF h.d[d].refs > 1 THEN [h EXCEPT !.d[d].refs = @ - 1]
  ELSE RqRequire([h EXCEPT !.d = RqWithout(@, d)],
                 h.d[d].active = <<>> /\ h.d[d].pending = <<>> /\ h.d[d].requests = 0,
                 "dispatch_destroy")

\* tcp_recv_add: the entry leaves the active list to be called back.
RqTakeOff(h, x) ==
  RqRequire([h EXCEPT !.d[h.e[x].disp].active = SelectSeq(@, LAMBDA y : y # x),
                      !.e[x].reading = FALSE],
            h.e[x].reading, "tcp_recv_add")

\* tcp_dispentry_cancel.  The response callback gets ISC_R_CANCELED, on which
\* req_response does nothing.  With the last active entry the read is canceled.
RqCancelTcp(h, x) ==
  LET d == h.e[x].disp
      off == IF h.e[x].reading THEN RqTakeOff(h, x) ELSE h
      idle == off.d[d].active = <<>>
      fine == ~Contains(off.d[d].active, x) /\ (idle => off.d[d].handle) IN
  IF h.e[x].state # "connected" THEN h
  ELSE [RqRequire(off, fine, "tcp_dispentry_cancel") EXCEPT
          !.d[d].canceling = @ \/ (idle /\ off.d[d].reading)]

\* dispentry_cancel: the ID is free again.  A read over UDP is canceled, which
\* udp_recv learns of from the state.
RqCancelEntry(h, x) ==
  IF h.e[x].state = "canceled" THEN h
  ELSE [(IF x \in RqTcp THEN RqCancelTcp(h, x) ELSE h) EXCEPT !.e[x].state = "canceled"]

\* dns_dispentry_detach, and dispentry_destroy with the last reference.
RqDetach(h, x) ==
  LET g == RqCancelEntry(h, x)
      d == h.e[x].disp
      gone == [g EXCEPT !.e = RqWithout(@, x)] IN
  IF h.e[x].refs > 1 THEN [h EXCEPT !.e[x].refs = @ - 1]
  ELSE IF x \notin RqTcp THEN RqRequire(gone, ~g.e[x].pending, "dispentry_destroy")
  ELSE RqDetachDisp(RqRequire([gone EXCEPT !.d[d].requests = @ - 1],
                              ~Contains(g.d[d].active \o g.d[d].pending, x),
                              "dispentry_destroy"), d)

\* tcp_startrecv: a read holds a reference to the dispatch.
RqReadTcp(h, d) == [h EXCEPT !.d[d].reading = TRUE, !.d[d].refs = @ + 1]

\* udp_startrecv, udp_dispatch_getnext: a read holds one to the entry.
RqReadUdp(h, x) ==
  IF h.e[x].reading THEN h ELSE [h EXCEPT !.e[x].reading = TRUE, !.e[x].refs = @ + 1]

----------------------------------------------------------------------------
(* The request behind an entry *)

\* dns_request_unref, and req_destroy with the last reference.
RqUnref(h, x) ==
  IF h.r[x].refs > 1 THEN [h EXCEPT !.r[x].refs = @ - 1]
  ELSE RqRequire([h EXCEPT !.r = RqWithout(@, x)],
                 ~h.r[x].linked /\ ~h.r[x].entry, "req_destroy")

\* req_cleanup: off the manager's list, dns_dispatch_done, dns_dispatch_detach.
RqCleanup(h, x) ==
  LET off == [h EXCEPT !.r[x].linked = FALSE, !.r[x].entry = FALSE]
      done == RqDetach(RqCancelEntry(off, x), x) IN
  IF ~h.r[x].entry THEN off
  ELSE IF x \in RqTcp THEN RqDetachDisp(done, h.e[x].disp) ELSE done

\* req_sendevent: the request is complete, and its callback is posted.
RqSendevent(h, x, result) ==
  LET c == RqCleanup([h EXCEPT !.r[x].complete = TRUE], x) IN
  RqRequire(RqPost([c EXCEPT !.r[x].result = result, !.r[x].refs = @ + 1], "event", x),
            ~h.r[x].complete, "req_sendevent")

\* req_send and dns_dispatch_send; the server may have the query at once.
RqSend(h, x) ==
  RqRequire([h EXCEPT !.r[x].sending = TRUE, !.r[x].refs = @ + 1, !.e[x].refs = @ + 1,
                      !.a = @ \cup {[req |-> x, id |-> h.e[x].id, disp |-> h.e[x].disp]}],
            x \in RqTcp => h.d[h.e[x].disp].handle, "dns_dispatch_send")

\* req_connected
RqConnected(h, x, result) ==
  LET g == [h EXCEPT !.r[x].connecting = FALSE] IN
  RqUnref(IF h.r[x].complete THEN g
          ELSE IF result = "success" THEN RqSend(g, x)
          ELSE RqSendevent(g, x, result), x)

\* Mutant: whether the request is complete is not tested.
RqSenddoneAgain(h, x, result) ==
  LET g == [h EXCEPT !.r[x].sending = FALSE] IN
  RqUnref(IF result = "success" THEN g
          ELSE RqSendevent(g, x, result), x)

\* Mutant: a complete request returns early, with the reference.
RqSenddoneKeeps(h, x, result) ==
  LET g == [h EXCEPT !.r[x].sending = FALSE] IN
  IF h.r[x].complete THEN g
  ELSE RqUnref(IF result = "success" THEN g ELSE RqSendevent(g, x, result), x)

\* req_senddone
RqSenddone(h, x, result) ==
  LET g == [h EXCEPT !.r[x].sending = FALSE] IN
  RqUnref(IF h.r[x].complete \/ result = "success" THEN g
          ELSE RqSendevent(g, x, result), x)

\* req_response: a query over UDP that timed out is sent again, unless the
\* last one is still being sent.
RqResponse(h, x, result) ==
  LET again == RqReadUdp([h EXCEPT !.r[x].udpcount = @ - 1], x) IN
  IF result = "canceled" THEN h
  ELSE IF x \notin DOMAIN h.r THEN RqRequire(h, FALSE, "req_response")
  ELSE IF h.r[x].complete THEN h
  ELSE IF result = "timedout" /\ x \notin RqTcp /\ h.r[x].udpcount > 1
  THEN IF h.r[x].sending THEN again ELSE RqSend(again, x)
  ELSE RqSendevent(h, x, result)

----------------------------------------------------------------------------
(* dns_request_create and dns_request_createraw *)

\* Mutant: a connection nobody uses any more is taken too.
RqShareableIdle ==
  LET Which(state, list) ==
        {d \in DOMAIN rqDisp : rqDisp[d].state = state} IN
  IF Which("connected", "active") # {} THEN Which("connected", "active")
  ELSE Which("connecting", "pending")

\* dns_dispatch_gettcp: a connected dispatch that is in use, or else one that
\* is connecting and is waited for.
RqShareable ==
  LET Which(state, list) ==
        {d \in DOMAIN rqDisp : rqDisp[d].state = state /\ rqDisp[d][list] # <<>>} IN
  IF Which("connected", "active") # {} THEN Which("connected", "active")
  ELSE Which("connecting", "pending")

\* The free IDs: an entry has its ID until it is canceled.  Over TCP the local
\* port counts as 0 for all connections; over UDP each has a port of its own.
RqFree(x) ==
  {id \in RqIds : /\ RqFixed[x] \in {0, id}
                  /\ x \in RqTcp => \A y \in DOMAIN rqEntry \cap RqTcp :
                                      rqEntry[y].state = "canceled" \/ rqEntry[y].id # id}

\* dns_dispatch_add.  The request refers to the dispatch, and so does the entry.
RqAdd(h, x, d, id) ==
  LET entry == [state |-> "none", reading |-> FALSE, pending |-> FALSE, refs |-> 1,
                disp |-> d, id |-> id, rebinds |-> 0]
      req == [connecting |-> TRUE, sending |-> FALSE, complete |-> FALSE, linked |-> TRUE,
              entry |-> TRUE, canceled |-> FALSE, refs |-> 2, udpcount |-> RqRetries + 1,
              result |-> "failure"]
      made == [state |-> "none", reading |-> FALSE, canceling |-> FALSE, handle |-> FALSE,
               active |-> <<>>, pending |-> <<>>, refs |-> 0, timedout |-> 0, requests |-> 0]
      disp == [(IF d \in DOMAIN h.d THEN h.d[d] ELSE made) EXCEPT
                 !.refs = @ + 2, !.requests = @ + 1] IN
  [h EXCEPT !.r = (x :> req) @@ @, !.e = (x :> entry) @@ @,
            !.d = IF x \in RqTcp THEN (d :> disp) @@ @ ELSE @]

\* tcp_dispatch_connect: the first entry connects; the others wait for that,
\* or use the connection there is and are told so later.
RqConnectTcp(h, x) ==
  LET d == h.e[x].disp
      waits == [h EXCEPT !.e[x].state = "connecting", !.e[x].refs = @ + 1,
                         !.d[d].pending = Append(@, x)]
      joins == [h EXCEPT !.e[x].state = "connected", !.e[x].reading = TRUE,
                         !.e[x].refs = @ + 1, !.d[d].active = Append(@, x)] IN
  CASE h.d[d].state = "none" ->
         [waits EXCEPT !.d[d].state = "connecting", !.d[d].refs = @ + 1]
    [] h.d[d].state = "connecting" -> waits
    [] h.d[d].state = "connected" ->
         RqPost(IF h.d[d].reading THEN joins ELSE RqReadTcp(joins, d), "connected", x)

\* udp_dispatch_connect
RqConnectUdp(h, x) ==
  [h EXCEPT !.e[x].state = "connecting", !.e[x].refs = @ + 1, !.e[x].pending = TRUE]

RqCreate(x) ==
  /\ rqFate[x] = "unborn" /\ rqShut = "no"
  /\ \E id \in RqFree(x), d \in IF x \in RqTcp /\ RqShareable # {} THEN RqShareable ELSE {x} :
       LET h == RqAdd(RqHeap, x, d, id) IN
       RqBecomes(IF x \in RqTcp THEN RqConnectTcp(h, x) ELSE RqConnectUdp(h, x))
  /\ rqFate' = [rqFate EXCEPT ![x] = "born"]
  /\ UNCHANGED <<rqFaults, rqRcu, rqShut>>

\* dns_dispatch_add finds no free ID, and returns inside its read-side section.
\* A fixed ID is tried a second time, with a connection of its own.
RqCreateRefused(x) ==
  /\ rqFate[x] = "unborn" /\ rqShut = "no"
  /\ RqFree(x) = {}
  /\ rqFate' = [rqFate EXCEPT ![x] = "refused"]
  /\ rqRcu' = rqRcu + IF RqFixed[x] = 0 THEN 1 ELSE 2
  /\ UNCHANGED <<rq, rqEntry, rqDisp, rqJobs, rqAsked, rqFaults, rqShut, rqFailed>>

RqCreateShut(x) ==
  /\ rqFate[x] = "unborn" /\ rqShut # "no"
  /\ rqFate' = [rqFate EXCEPT ![x] = "refused"]
  /\ UNCHANGED <<rq, rqEntry, rqDisp, rqJobs, rqAsked, rqFaults, rqRcu, rqShut, rqFailed>>

----------------------------------------------------------------------------
(* What the network reports *)

RqFault(bad) ==
  /\ bad => rqFaults < rqScenario.faults
  /\ rqFaults' = IF bad THEN rqFaults + 1 ELSE rqFaults

\* resp_connected: the callback, and DISPENTRY005.
RqTellConnected(h, x, result) == RqDetach(RqConnected(h, x, result), x)

\* tcp_connected: every waiting entry not canceled since becomes active, and all
\* are called back.
RqTcpConnected(d, result) ==
  LET waiting == rqDisp[d].pending
      Live(x) == rqEntry[x].state # "canceled"
      live == SelectSeq(waiting, Live)
      active == IF result = "success" THEN live ELSE <<>>
      h == [RqHeap EXCEPT
              !.e = [x \in DOMAIN @ |->
                       IF ~Contains(live, x) THEN @[x]
                       ELSE [@[x] EXCEPT !.state = IF result = "success" THEN "connected"
                                                   ELSE "none",
                                         !.reading = result = "success"]],
              !.d[d].pending = <<>>,
              !.d[d].active = @ \o active,
              !.d[d].state = IF active = <<>> THEN "canceled" ELSE "connected",
              !.d[d].handle = active # <<>>]
      g == IF active = <<>> THEN h ELSE RqReadTcp(h, d)
      Tell(k, x) == RqTellConnected(k, x, IF Live(x) THEN result ELSE "canceled") IN
  /\ rqDisp[d].state = "connecting"
  /\ RqFault(result # "success")
  /\ RqBecomes(RqDetachDisp(FoldLeft(Tell, g, waiting), d))
  /\ UNCHANGED <<rqFate, rqRcu, rqShut>>

\* udp_connected: a port in use is replaced by another.
RqUdpConnected(x, result) ==
  LET e == rqEntry[x]
      h == [RqHeap EXCEPT !.e[x].pending = FALSE]
      rebind == result = "addrinuse" /\ e.rebinds < RqRebinds
      g == IF result = "success"
           THEN RqReadUdp([h EXCEPT !.e[x].state = "connected"], x)
           ELSE [h EXCEPT !.e[x].state = "none"] IN
  /\ e.pending
  /\ RqFault(result # "success")
  /\ RqBecomes(RqDetach(
       IF e.state = "canceled" THEN RqConnected(h, x, "canceled")
       ELSE IF rebind THEN RqConnectUdp([h EXCEPT !.e[x].rebinds = @ + 1], x)
       ELSE RqConnected(g, x, result), x))
  /\ UNCHANGED <<rqFate, rqRcu, rqShut>>

\* send_done: a query that was not sent is not answered.
RqSendDone(x, result) ==
  LET unsent == IF result = "success" THEN RqHeap
                ELSE [RqHeap EXCEPT !.a = {m \in @ : m.req # x}]
      told == RqSenddone(unsent, x, result) IN
  /\ rq[x].sending
  /\ RqFault(result # "success")
  /\ result = "success" \/ \E m \in rqAsked : m.req = x
  /\ RqBecomes(RqDetach(IF result = "success" THEN told ELSE RqCancelEntry(told, x), x))
  /\ UNCHANGED <<rqFate, rqRcu, rqShut>>

\* tcp_recv_processall, with the reference tcp_recv_add took.
RqProcess(h, took) ==
  LET Hold(k, t) == [k EXCEPT !.e[t.entry].refs = @ + 1]
      Call(k, t) == RqDetach(RqResponse(k, t.entry, t.result), t.entry) IN
  FoldLeft(Call, FoldLeft(Hold, h, took), took)

\* tcp_recv.  "first" is the entry phase 1 takes off, if any, and "result" what
\* the phase makes of the event; "late" are the others whose time is up; when
\* the connection ends, all that is left is taken off.  An answer nobody waits
\* for is put down to a query that timed out before, if there is one left.
RqTcpRecv(h, d, first, result, late) ==
  LET Took(k, x) == RqTakeOff(k, x)
      known == result = "notfound" /\ h.d[d].timedout > 0
      final == IF result = "notfound" /\ ~known THEN "unexpected" ELSE result
      ends == final \notin {"success", "timedout", "notfound"}
      h1 == FoldLeft(Took, [h EXCEPT !.d[d].reading = FALSE, !.d[d].canceling = FALSE,
                                     !.d[d].timedout = IF known THEN @ - 1 ELSE @], first)
      overdue == SelectSeq(h1.d[d].active, LAMBDA x : x \in late)
      h3 == FoldLeft(Took, h1, overdue)
      rest == IF ends THEN h3.d[d].active ELSE <<>>
      h4 == [FoldLeft(Took, h3, rest) EXCEPT !.d[d].state = IF ends THEN "canceled" ELSE @]
      h5 == IF h4.d[d].active = <<>> THEN h4 ELSE RqReadTcp(h4, d)
      With(seq, res) == [i \in DOMAIN seq |-> [entry |-> seq[i], result |-> res]] IN
  RqDetachDisp(RqProcess(h5, With(first, final) \o With(overdue, "timedout")
                               \o With(rest, final)), d)

\* tcp_recv_oldest: the timer ends the wait of the oldest active entry.
RqTcpTimedOut(d, late) ==
  LET active == rqDisp[d].active
      oldest == IF active = <<>> THEN <<>> ELSE <<Head(active)>>
      h == IF oldest = <<>> THEN RqHeap ELSE [RqHeap EXCEPT !.d[d].timedout = @ + 1] IN
  /\ rqDisp[d].reading
  /\ RqBecomes(RqTcpRecv(h, d, oldest,
                         IF oldest = <<>> THEN "notfound" ELSE "timedout", late))
  /\ UNCHANGED <<rqFate, rqFaults, rqRcu, rqShut>>

\* tcp_recv_success: the answer is for the entry that has its ID.
RqTcpAnswered(d, m, late) ==
  LET owner == {y \in DOMAIN rqEntry \cap RqTcp :
                  rqEntry[y].state # "canceled" /\ rqEntry[y].id = m.id}
      first == SetToSeq({y \in owner : rqEntry[y].reading})
      result == IF first # <<>> THEN "success"
                ELSE IF owner # {} THEN "unexpected" ELSE "notfound" IN
  /\ rqDisp[d].reading
  /\ m.disp = d /\ m.req \in RqTcp
  /\ RqBecomes(RqTcpRecv([RqHeap EXCEPT !.a = @ \ {m}], d, first, result, late))
  /\ UNCHANGED <<rqFate, rqFaults, rqRcu, rqShut>>

\* The connection ends (by the peer, by an error or a message that is no
\* answer), or the canceled read is reported.
RqTcpEnds(d, result, late) ==
  /\ rqDisp[d].reading
  /\ result = "canceled" => rqDisp[d].canceling
  /\ RqFault(result # "canceled")
  /\ RqBecomes(RqTcpRecv(RqHeap, d, <<>>, result, late))
  /\ UNCHANGED <<rqFate, rqRcu, rqShut>>

\* udp_recv: after a message that is not the answer ("mismatch") it reads on;
\* when the time was up by then, that is "timedout".
RqUdpRecv(x, result) ==
  LET e == rqEntry[x]
      h == [RqHeap EXCEPT !.e[x].reading = FALSE,
                          !.a = IF result = "success" THEN {m \in @ : m.req # x} ELSE @] IN
  /\ x \notin RqTcp /\ e.reading
  /\ result = "success" => \E m \in rqAsked : m.req = x
  /\ result = "canceled" => e.state = "canceled"
  /\ RqFault(result \in {"mismatch", "eof"})
  /\ RqBecomes(RqDetach(
       IF e.state = "canceled" THEN h
       ELSE IF result = "mismatch" THEN RqReadUdp(h, x)
       ELSE RqResponse(h, x, result), x))
  /\ UNCHANGED <<rqFate, rqRcu, rqShut>>

----------------------------------------------------------------------------
(* The loop's posted callbacks, and the owners *)

\* req_sendevent_cb: the owner's callback, which ends with dns_request_destroy.
RqEvent(h, x) == RqUnref(RqUnref(h, x), x)

\* Mutant: the canceled request is cleaned up and its owner not told.
RqCancelNowSilent(h, x) ==
  IF h.r[x].complete THEN h ELSE RqCleanup([h EXCEPT !.r[x].complete = TRUE], x)

\* request_cancel
RqCancelNow(h, x) ==
  IF h.r[x].complete THEN h ELSE RqSendevent(h, x, "canceled")

\* requests_shutdown: every request on the list that is not complete.
RqShutdownAll(h) ==
  LET Stop(k, x) == IF k.r[x].complete THEN k ELSE RqSendevent(k, x, "shuttingdown") IN
  FoldLeft(Stop, h, SetToSeq({x \in DOMAIN h.r : h.r[x].linked}))

RqJob ==
  /\ rqJobs # <<>>
  /\ LET j == Head(rqJobs)
         x == j.req
         h == [RqHeap EXCEPT !.q = Tail(@)] IN
     /\ RqBecomes(CASE j.job = "event" -> RqEvent(h, x)
                    [] j.job = "connected" -> RqTellConnected(h, x, "success")
                    [] j.job = "cancel" -> RqUnref(RqCancelNow(h, x), x)
                    [] j.job = "shutdown" -> RqShutdownAll(h))
     /\ rqFate' = IF j.job = "event" THEN [rqFate EXCEPT ![x] = rq[x].result] ELSE rqFate
  /\ UNCHANGED <<rqFaults, rqRcu, rqShut>>

\* dns_request_cancel, on the request's loop or on another.
RqCancel(x, here) ==
  LET h == [RqHeap EXCEPT !.r[x].canceled = TRUE] IN
  /\ rqFate[x] = "born" /\ x \in rqScenario.canceled /\ ~rq[x].canceled
  /\ RqBecomes(IF here THEN RqCancelNow(h, x)
               ELSE RqPost([h EXCEPT !.r[x].refs = @ + 1], "cancel", x))
  /\ UNCHANGED <<rqFate, rqFaults, rqRcu, rqShut>>

\* dns_requestmgr_shutdown, on another loop: no request is made after the flag
\* is set, and when no thread is in a read-side section, the loops are told.
RqShutdown ==
  /\ rqScenario.shut /\ rqShut = "no"
  /\ rqShut' = "set"
  /\ UNCHANGED <<rq, rqEntry, rqDisp, rqJobs, rqAsked, rqFate, rqFaults, rqRcu, rqFailed>>

RqSynchronized ==
  /\ rqShut = "set" /\ rqRcu = 0
  /\ rqShut' = "told"
  /\ RqBecomes(RqPost(RqHeap, "shutdown", "none"))
  /\ UNCHANGED <<rqFate, rqFaults, rqRcu>>

----------------------------------------------------------------------------
RqErrors == {"success", "failure"}

RqTcpEvent(d) ==
  \/ \E result \in RqErrors : RqTcpConnected(d, result)
  \/ \E late \in SUBSET Range(rqDisp[d].active) :
       \/ RqTcpTimedOut(d, late)
       \/ \E m \in rqAsked : RqTcpAnswered(d, m, late)
       \/ \E result \in {"eof", "canceled"} : RqTcpEnds(d, result, late)

RqUdpEvent(x) ==
  \/ \E result \in RqErrors \cup {"addrinuse"} : RqUdpConnected(x, result)
  \/ \E result \in {"success", "timedout", "canceled", "mismatch", "eof"} :
       RqUdpRecv(x, result)

RqSent(x) == \E result \in RqErrors : RqSendDone(x, result)

\* The network and the loop.
RqRuns ==
  \/ RqJob
  \/ \E x \in DOMAIN rq : RqSent(x)
  \/ \E d \in DOMAIN rqDisp : RqTcpEvent(d)
  \/ \E x \in DOMAIN rqEntry : RqUdpEvent(x)

RequestNext ==
  /\ rqFailed = {} /\ UNCHANGED rqScenario
  /\ \/ \E x \in rqScenario.made : RqCreate(x) \/ RqCreateRefused(x) \/ RqCreateShut(x)
     \/ \E x \in DOMAIN rq, here \in BOOLEAN : RqCancel(x, here)
     \/ RqShutdown \/ RqSynchronized
     \/ RqRuns

RequestSpec == RequestInit /\ [][RequestNext]_rqvars

\* The loop runs what is posted to it, and the network reports on all it is
\* asked for, if only by the timer.  This is weak fairness of RqRuns and of
\* RqSynchronized, with "enabled" written out.
RqBusy ==
  /\ rqFailed = {}
  /\ \/ rqJobs # <<>>
     \/ \E x \in DOMAIN rq : rq[x].sending
     \/ \E d \in DOMAIN rqDisp : rqDisp[d].state = "connecting" \/ rqDisp[d].reading
     \/ \E x \in DOMAIN rqEntry : rqEntry[x].pending \/ rqEntry[x].reading

RqFairness ==
  /\ <>[]RqBusy => []<><<RqRuns>>_rqvars
  /\ <>[](rqFailed = {} /\ rqShut = "set" /\ rqRcu = 0) => []<><<RqSynchronized>>_rqvars

----------------------------------------------------------------------------
(* Properties *)

RqResults == {"success", "failure", "addrinuse", "timedout", "eof", "unexpected", "canceled",
              "shuttingdown"}

RqJobsOf(job, x) == Cardinality({i \in DOMAIN rqJobs : rqJobs[i] = [job |-> job, req |-> x]})

RqHas(x, flag) == x \in DOMAIN rq /\ rq[x][flag]

RqBit(p) == IF p THEN 1 ELSE 0

RequestTypeOK ==
  /\ DOMAIN rqEntry \subseteq RqRequests /\ DOMAIN rqDisp \subseteq RqTcp
  /\ rq \in [DOMAIN rq ->
       [connecting : BOOLEAN, sending : BOOLEAN, complete : BOOLEAN, linked : BOOLEAN,
        entry : BOOLEAN, canceled : BOOLEAN, refs : 1 .. 5, udpcount : 1 .. RqRetries + 1,
        result : RqResults]]
  /\ rqEntry \in [DOMAIN rqEntry ->
       [state : {"none", "connecting", "connected", "canceled"}, reading : BOOLEAN,
        pending : BOOLEAN, refs : 1 .. 5, disp : RqRequests, id : RqIds,
        rebinds : 0 .. RqRebinds]]
  /\ \A d \in DOMAIN rqDisp :
       /\ rqDisp[d].state \in {"none", "connecting", "connected", "canceled"}
       /\ Range(rqDisp[d].active) \cup Range(rqDisp[d].pending) \subseteq DOMAIN rqEntry
       /\ rqDisp[d].timedout \in 0 .. Cardinality(RqTcp)
       /\ rqDisp[d].requests \in 0 .. Cardinality(RqTcp)
  /\ rqFate \in [RqRequests -> {"unborn", "refused", "born"} \cup RqResults]

\* No assertion of the two files fails: nothing is freed while it is linked or
\* in use, nobody is called back after completion, and the callbacks of a read
\* that was canceled or had timed out (udp_recv, tcp_recv) find what they need.
RqAsserts == rqFailed = {}

\* A request that was created is called back once: its callback is posted when
\* it completes, and until that has run the request is still there
\* (req_sendevent, req_sendevent_cb).
RqOneCallback ==
  \A x \in RqRequests :
    /\ rqFate[x] = "born" => x \in DOMAIN rq
    /\ RqJobsOf("event", x) = RqBit(rqFate[x] = "born" /\ rq[x].complete)

\* The three reference counts are what is owed: a request's to its owner and to
\* the connect, the send, the event and the cancel under way; an entry's to its
\* request (DISPENTRY000), the UDP read (003), the connect (004, 005) and the
\* send (007); a dispatch's to the entries (DISPATCH001), the read (002), the
\* connect (003) and the requests.  So all is freed, and nothing early.
RqReferences ==
  /\ \A x \in DOMAIN rq :
       rq[x].refs = RqBit(rqFate[x] = "born") + RqBit(rq[x].connecting)
                    + RqBit(rq[x].sending) + RqJobsOf("event", x) + RqJobsOf("cancel", x)
  /\ \A x \in DOMAIN rqEntry :
       rqEntry[x].refs =
         RqBit(x \notin RqTcp /\ rqEntry[x].reading) + RqBit(RqHas(x, "entry"))
         + RqBit(RqHas(x, "connecting")) + RqBit(RqHas(x, "sending"))
  /\ \A d \in DOMAIN rqDisp :
       LET users == {x \in DOMAIN rqEntry \cap RqTcp : rqEntry[x].disp = d} IN
       /\ rqDisp[d].requests = Cardinality(users)
       /\ rqDisp[d].refs = Cardinality(users) + RqBit(rqDisp[d].reading)
            + RqBit(rqDisp[d].state = "connecting")
            + Cardinality({x \in users : RqHas(x, "entry")})

\* Whoever waits on a connection will hear of it: while entries are active the
\* connection is read, and the read was not canceled, of which req_response
\* would tell nobody (gettcp takes no connection without active entries).
RqActiveIsRead ==
  \A d \in DOMAIN rqDisp :
    /\ rqDisp[d].active # <<>> =>
         rqDisp[d].state = "connected" /\ rqDisp[d].reading /\ ~rqDisp[d].canceling
    /\ \A x \in DOMAIN rqEntry \cap RqTcp :
         rqEntry[x].disp = d =>
           (rqEntry[x].reading <=> Contains(rqDisp[d].active, x))

\* What requests, entries and connections share is freed when the last user lets
\* go of it and not before, is read as long as one waits, and no assertion about
\* it fails (req_destroy, dispentry_destroy, dispatch_destroy).
RqBooks == RequestTypeOK /\ RqAsserts /\ RqReferences /\ RqActiveIsRead

\* Every request that was created is called back, whatever the network does:
\* connecting, sending and reading each end, if only by a timer.  (A request is
\* made once, so none is waiting in the end.)
RqCalledBack == <>[](\A x \in RqRequests : rqFate[x] # "born")

\* Does not hold when an ID is taken: the read-side section dns_dispatch_add left
\* open keeps dns_requestmgr_shutdown waiting (request.c: "Wait until all
\* dns_request_create{raw}() are finished").
RqShutdownTold == rqShut = "set" ~> rqShut = "told"
=============================================================================

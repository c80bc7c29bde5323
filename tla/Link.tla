-------------------------------- MODULE Link --------------------------------
(* The connections of the protocol and the two clients of the repository that *)
(* use them: the command line client, which sends one command at a time on    *)
(* one connection and never tries again, and the replication client pool,     *)
(* where the tasks that send append and heartbeat calls to one peer share a   *)
(* worker, which holds one connection, and try again in two layers.           *)
(*                                                                            *)
(* A scene says which client runs, how both ends are configured, what is sent *)
(* and how many faults may happen.                                            *)
EXTENDS Messages, FiniteSets

CONSTANTS
  Scenes,        \* the scenes to explore
  Sample,        \* for every kind of answer, the contents an answer can have
  MaxConns,      \* a bound on the connections of a scene
  MaxWorkers     \* a bound on the workers of a scene

VARIABLES
  scene,
  conns,      \* the connections in the order they were made
  pool,       \* the worker under the peer's key, 0 for none
  workers,    \* the peer_worker tasks in the order they were spawned
  calls,      \* the tasks inside append or heartbeat
  cli,        \* the command line client
  served,     \* the commands that the server has decoded and answered, and how
              \* often it has carried out each call
  faults      \* the faults that may still happen

vars == <<scene, conns, pool, workers, calls, cli, served, faults>>

-----------------------------------------------------------------------------
(* Connections.  up and down hold the frames on their way to the server and   *)
(* to the client; held is whether the client still has its end.               *)

NoOptions == Options(FALSE, 0, 0)

NewConn(frame) ==
  [server |-> "hello", sopt |-> NoOptions, copt |-> NoOptions, authed |-> FALSE, txn |-> FALSE,
   up |-> <<frame>>, down |-> <<>>, held |-> TRUE]

(* A frame the client writes to a connection that the server has closed is    *)
(* lost; the client only notices when it reads.                               *)
Sent(conn, frame) ==
  IF conn.server = "closed" THEN conn ELSE [conn EXCEPT !.up = Append(@, frame)]

Dropped(cs, ks) == [k \in DOMAIN cs |-> IF k \in ks THEN [cs[k] EXCEPT !.held = FALSE] ELSE cs[k]]

Closed(conn) == [conn EXCEPT !.server = "closed", !.up = <<>>]

HelloFrame == CHOOSE f \in EncodeFrame(ClientHello(scene.client), StartupOptions) : TRUE

(* What a client that waits for a frame can find: a frame it can read, or a   *)
(* reason to give up.                                                         *)
HasFrame(k, options) == conns[k].down # <<>> /\ Accepts(Head(conns[k].down), options)

HasFailedIfBad(k, options) ==
  conns[k].down # <<>> /\ ~Accepts(Head(conns[k].down), options)

HasFailed(k, options) ==
  \/ conns[k].down # <<>> /\ ~Accepts(Head(conns[k].down), options)
  \/ conns[k].down = <<>> /\ conns[k].server = "closed"

Taken(conn) == [conn EXCEPT !.down = Tail(@)]

(* The connections after a read of k that found a frame or the end.           *)
After(k) == IF conns[k].down = <<>> THEN conns ELSE [conns EXCEPT ![k] = Taken(@)]

-----------------------------------------------------------------------------
(* The server's task of connection k: handle_client.                          *)

ReadHello(k) ==
  /\ conns[k].server = "hello"
  /\ conns[k].up # <<>>
  /\ \E frame \in {Head(conns[k].up)} : \E hello \in {DecodeClientHello(frame.body)} :
       IF ~Accepts(frame, DefaultOptions) \/ hello.got # "ok"
       THEN conns' = [conns EXCEPT ![k] = Closed(@)]
       ELSE \E n \in {Negotiate(hello.value, scene.server)} :
            \E f \in EncodeFrame(n.hello, StartupOptions) :
              conns' = [conns EXCEPT ![k] =
                          [@ EXCEPT !.up = Tail(@), !.down = Append(@, f),
                                    !.server = IF n.ok THEN "serving" ELSE "closed",
                                    !.sopt = n.options]]
  /\ UNCHANGED <<scene, pool, workers, calls, cli, served, faults>>

(* The answers a command can get.  Any command may be refused; a transaction  *)
(* queues what it does not refuse.                                            *)
Refusal == [status |-> Error, kind |-> "error", content |-> <<Name, Name, Name>>]

Answers(c, txn) ==
  LET kind == AnswerKind(c)
      Of(k) == {[status |-> Ok, kind |-> k, content |-> v] : v \in Sample[k]}
      missing == [status |-> NotFound, kind |-> "empty", content |-> <<>>]
  IN {Refusal} \union
     IF txn /\ c.op \notin {"EXEC", "DISCARD"}
     THEN IF c.op \in NeverQueued THEN {}
          ELSE {[status |-> Ok, kind |-> "value", content |-> <<Queued>>]}
     ELSE CASE kind = "option" -> Of("value") \union {missing}
            [] c.op = "LIST" -> {[status |-> Ok, kind |-> "entries", content |-> v] :
                                   v \in Sample["stored"]}
            [] OTHER -> Of(kind)

(* Whether the session can be in a transaction afterwards.  An error may have *)
(* come after EXEC took the queue or because the transaction had expired.     *)
TxnAfter(txn, c, answer) ==
  IF answer.status = Error THEN {txn, FALSE}
  ELSE CASE c.op = "MULTI" -> {TRUE} [] c.op \in {"EXEC", "DISCARD"} -> {FALSE} [] OTHER -> {txn}

(* Writing a response: the connection afterwards.  One that is too large ends *)
(* it.                                                                        *)
Responses(conn, id, status, payload) ==
  Given(ResponseBody(id, status, payload), LAMBDA body :
    {[conn EXCEPT !.down = Append(@, f)] : f \in EncodeFrame(body, conn.sopt)}
    \union (IF MayNotFit(body, conn.sopt) THEN {Closed(conn)} ELSE {}))

Refusals(conn, id) ==
  Responses(conn, id, Refusal.status, EncodeAll(AnswerFields["error"], Refusal.content))

IsCall(op) == op \in {"REPLICATION_APPEND", "REPLICATION_HEARTBEAT"}

(* A command: decoded, authorized, carried out and answered.  A panic of the  *)
(* decoder ends the task of the connection.                                   *)
ServeCommand(k, conn, r) ==
  /\ \E read \in {IntoCommand(r.op, r.payload)} :
       LET c == [op |-> r.op, args |-> read.value, meta |-> r.meta]
           allowed == IF r.op = "AUTH" THEN scene.client.login = "right"
                      ELSE scene.auth => conn.authed
           LoggedIn(answer) == r.op = "AUTH" /\ answer.status = Ok
       IN IF read.got # "ok" \/ ~allowed
          THEN /\ \E after \in IF read.got = "panic" THEN {Closed(conn)} ELSE Refusals(conn, r.id) :
                    conns' = [conns EXCEPT ![k] = after]
               /\ UNCHANGED served
          ELSE \E answer \in Answers(c, conn.txn) : \E txn \in TxnAfter(conn.txn, c, answer) :
               \E after \in Responses([conn EXCEPT !.authed = @ \/ LoggedIn(answer), !.txn = txn],
                                      r.id, answer.status,
                                      EncodeAll(AnswerFields[answer.kind], answer.content)) :
                 /\ conns' = [conns EXCEPT ![k] = after]
                 /\ served' = [served EXCEPT !.commands = Append(@, <<r.id, c>>)]
  /\ UNCHANGED faults

(* An append or heartbeat: the payload names the call.  The peer may carry it *)
(* out and answer with an error.                                              *)
ServeCall(k, conn, r) ==
  IF scene.auth /\ ~conn.authed
  THEN /\ \E after \in Refusals(conn, r.id) : conns' = [conns EXCEPT ![k] = after]
       /\ UNCHANGED <<served, faults>>
  ELSE /\ served' = [served EXCEPT !.calls[r.payload[1]] = @ + 1]
       /\ \E fails \in IF faults > 0 THEN BOOLEAN ELSE {FALSE} :
            /\ faults' = IF fails THEN faults - 1 ELSE faults
            /\ \E after \in IF fails THEN Refusals(conn, r.id)
                            ELSE Responses(conn, r.id, Ok, <<r.payload[1]>>) :
                 conns' = [conns EXCEPT ![k] = after]

Serve(k) ==
  /\ conns[k].server = "serving"
  /\ conns[k].up # <<>>
  /\ \E frame \in {Head(conns[k].up)}, conn \in {[conns[k] EXCEPT !.up = Tail(@)]} :
     \E request \in {DecodeRequest(frame.body)} :
       IF ~Accepts(frame, conn.sopt) \/ request.got # "ok"
       THEN conns' = [conns EXCEPT ![k] = Closed(conn)] /\ UNCHANGED <<served, faults>>
       ELSE LET r == request.value
            IN IF r.meta.deadline = <<0>> \/ (conn.txn /\ r.meta.sequence # <<>>)
               THEN /\ \E after \in Refusals(conn, r.id) : conns' = [conns EXCEPT ![k] = after]
                    /\ UNCHANGED <<served, faults>>
               ELSE IF IsCall(r.op) THEN ServeCall(k, conn, r) ELSE ServeCommand(k, conn, r)
  /\ UNCHANGED <<scene, pool, workers, calls, cli>>

(* The client has gone and everything it sent has been read.                  *)
SeeEof(k) ==
  /\ conns[k].server # "closed"
  /\ conns[k].up = <<>>
  /\ ~conns[k].held
  /\ conns' = [conns EXCEPT ![k] = Closed(@)]
  /\ UNCHANGED <<scene, pool, workers, calls, cli, served, faults>>

ServerStep(k) == k \in DOMAIN conns /\ (ReadHello(k) \/ Serve(k) \/ SeeEof(k))

-----------------------------------------------------------------------------
(* The command line client: Client::new, and execute for one command after    *)
(* another.  Any error ends it.                                               *)

Login == [op |-> "AUTH", args |-> <<Name, Name>>, meta |-> NoMetadata]

Script == (IF scene.client.login = "none" THEN <<>> ELSE <<Login>>) \o scene.commands

CliConnect ==
  /\ cli.phase = "start"
  /\ conns' = Append(conns, NewConn(HelloFrame))
  /\ cli' = [cli EXCEPT !.phase = "hello"]
  /\ UNCHANGED <<scene, pool, workers, calls, served, faults>>

(* An error drops the connection.                                             *)
CliFails(why) ==
  /\ cli' = [cli EXCEPT !.phase = "failed", !.why = why]
  /\ conns' = Dropped(conns, {1})

CliHello ==
  /\ cli.phase = "hello"
  /\ \/ HasFailed(1, DefaultOptions) /\ CliFails("closed")
     \/ /\ HasFrame(1, DefaultOptions)
        /\ \E options \in {ClientOptions(Head(conns[1].down).body)} :
             \/ options = {} /\ CliFails("refused")
             \/ \E o \in options :
                  /\ conns' = [conns EXCEPT ![1] = [Taken(@) EXCEPT !.copt = o]]
                  /\ cli' = [cli EXCEPT !.phase = "ready"]
  /\ UNCHANGED <<scene, pool, workers, calls, served, faults>>

(* from_command and write_request_to; the number of the command serves as the *)
(* request's identifier.                                                      *)
CliSend ==
  /\ cli.phase = "ready"
  /\ cli.at <= Len(Script)
  /\ \E c \in {Script[cli.at]}, options \in {conns[1].copt} :
       IF ~FitAll(Written[c.op], c.args) THEN CliFails("unwritable")
       ELSE \E body \in {RequestBody(cli.at, c.op, c.meta, EncodeAll(Written[c.op], c.args))} :
              \/ MayNotFit(body, options) /\ CliFails("too large")
              \/ \E f \in EncodeFrame(body, options) :
                   /\ conns' = [conns EXCEPT ![1] = Sent(@, f)]
                   /\ cli' = [cli EXCEPT !.phase = "waiting"]
  /\ UNCHANGED <<scene, pool, workers, calls, served, faults>>

(* What is wrong with a response to command c.                                *)
Complaint(response, c) ==
  CASE response.got # "ok" -> "unreadable"
    [] response.value.id # cli.at -> "mismatch"
    [] ~Renders(c, response.value.status, response.value.payload) -> "unreadable"
    [] OTHER -> "none"

CliRead ==
  /\ cli.phase = "waiting"
  /\ \/ HasFailed(1, conns[1].copt) /\ CliFails("closed")
     \/ /\ HasFrame(1, conns[1].copt)
        /\ \E response \in {DecodeResponse(Head(conns[1].down).body)} :
           \E why \in {Complaint(response, Script[cli.at])} :
             IF why # "none" THEN CliFails(why)
             ELSE /\ cli' = [cli EXCEPT !.phase = "ready", !.at = @ + 1]
                  /\ conns' = [conns EXCEPT ![1] = Taken(@)]
  /\ UNCHANGED <<scene, pool, workers, calls, served, faults>>

CliExit ==
  /\ cli.phase = "ready"
  /\ cli.at > Len(Script)
  /\ cli' = [cli EXCEPT !.phase = "done"]
  /\ conns' = Dropped(conns, {1})
  /\ UNCHANGED <<scene, pool, workers, calls, served, faults>>

CliStep == CliConnect \/ CliHello \/ CliSend \/ CliRead \/ CliExit

-----------------------------------------------------------------------------
(* The pool: a task inside send_with_retry for one peer.                      *)

NewWorker == [alive |-> TRUE, queue |-> <<>>, job |-> 0, tries |-> 0, phase |-> "idle",
              conn |-> 0, fresh |-> 0]

(* peer_sender: under the lock, the worker of the key or a new one.           *)
Acquire(c) ==
  /\ calls[c].phase = "start"
  /\ IF pool # 0 THEN UNCHANGED <<pool, workers>>
     ELSE /\ workers' = Append(workers, NewWorker)
          /\ pool' = Len(workers) + 1
  /\ calls' = [calls EXCEPT ![c].phase = "sending", ![c].worker = pool']
  /\ UNCHANGED <<scene, conns, cli, served, faults>>

(* sender.send waits for room in the worker's channel.                        *)
Enqueue(c) ==
  /\ calls[c].phase = "sending"
  /\ LET w == calls[c].worker
     IN /\ Len(workers[w].queue) < scene.capacity
        /\ workers' = [workers EXCEPT ![w].queue = Append(@, c)]
  /\ calls' = [calls EXCEPT ![c].phase = "waiting"]
  /\ UNCHANGED <<scene, conns, pool, cli, served, faults>>

(* remove_peer removes whatever worker has the key by now.                    *)
TryAgain(c) ==
  /\ calls[c].phase = "failed"
  /\ calls[c].tries = 1
  /\ pool' = 0
  /\ calls' = [calls EXCEPT ![c].phase = "start", ![c].tries = 2, ![c].worker = 0]
  /\ UNCHANGED <<scene, conns, workers, cli, served, faults>>

GiveUp(c) ==
  /\ calls[c].phase = "failed"
  /\ calls[c].tries = 2
  /\ calls' = [calls EXCEPT ![c].phase = "done", ![c].outcome = "error", ![c].worker = 0]
  /\ UNCHANGED <<scene, conns, pool, workers, cli, served, faults>>

(* The timeout around the call: the task goes, what it sent stays.            *)
TimeOut(c) ==
  /\ scene.timeouts
  /\ calls[c].phase \in {"sending", "waiting", "failed", "start"}
  /\ calls' = [calls EXCEPT ![c].phase = "done", ![c].outcome = "timeout", ![c].worker = 0]
  /\ UNCHANGED <<scene, conns, pool, workers, cli, served, faults>>

CallStep(c) == c \in DOMAIN calls /\ (Acquire(c) \/ Enqueue(c) \/ TryAgain(c) \/ GiveUp(c))

(* respond_to.send: nobody listens if the task has timed out.                 *)
Replied(c, outcome, reply) ==
  IF calls[c].phase # "waiting" THEN calls
  ELSE IF outcome = "ok"
  THEN [calls EXCEPT ![c].phase = "done", ![c].outcome = "ok", ![c].reply = reply,
                     ![c].worker = 0]
  ELSE [calls EXCEPT ![c].phase = "failed", ![c].worker = 0]

-----------------------------------------------------------------------------
(* The worker of a peer: peer_worker, and for one call send_json_rpc with its *)
(* second attempt on a new connection.                                        *)

Take(w) ==
  /\ workers[w].phase = "idle"
  /\ workers[w].queue # <<>>
  /\ LET worker == workers[w]
     IN workers' = [workers EXCEPT ![w] =
                      [worker EXCEPT !.job = Head(worker.queue), !.queue = Tail(@), !.tries = 1,
                                     !.phase = IF worker.conn = 0 THEN "connect" ELSE "write"]]
  /\ UNCHANGED <<scene, conns, pool, calls, cli, served, faults>>

(* An attempt that fails.  The first one drops the connection and is followed *)
(* by a second; after the second the error goes to the caller, a connection   *)
(* still being set up is dropped, and an established one is kept.             *)
AttemptFails(w, cs) ==
  LET worker == workers[w]
  IN IF worker.tries = 1
     THEN /\ workers' = [workers EXCEPT ![w] = [@ EXCEPT !.tries = 2, !.phase = "connect",
                                                         !.conn = 0, !.fresh = 0]]
          /\ conns' = Dropped(cs, {worker.conn, worker.fresh})
          /\ UNCHANGED calls
     ELSE /\ workers' = [workers EXCEPT ![w] = [@ EXCEPT !.job = 0, !.phase = "idle",
                                                         !.fresh = 0]]
          /\ conns' = Dropped(cs, {worker.fresh})
          /\ calls' = Replied(worker.job, "error", 0)

(* ensure_connection: connect and write the hello.                            *)
Connect(w) ==
  /\ workers[w].phase = "connect"
  /\ \/ /\ conns' = Append(conns, NewConn(HelloFrame))
        /\ workers' = [workers EXCEPT ![w] = [@ EXCEPT !.fresh = Len(conns) + 1,
                                                       !.phase = "hello"]]
        /\ UNCHANGED <<calls, faults>>
     \/ /\ faults > 0
        /\ faults' = faults - 1
        /\ AttemptFails(w, conns)
  /\ UNCHANGED <<scene, pool, cli, served>>

(* The connection is set up: it is kept as the worker's own.                  *)
Established(w, cs) ==
  /\ conns' = cs
  /\ workers' = [workers EXCEPT ![w] = [@ EXCEPT !.conn = workers[w].fresh, !.fresh = 0,
                                                 !.phase = "write"]]
  /\ UNCHANGED calls

(* negotiate_replication_transport, and the AUTH request that follows when    *)
(* the peer's credentials are configured.                                     *)
HelloAnswered(w) ==
  /\ workers[w].phase = "hello"
  /\ LET k == workers[w].fresh
     IN \/ HasFailed(k, DefaultOptions) /\ AttemptFails(w, After(k))
        \/ /\ HasFrame(k, DefaultOptions)
           /\ \E options \in {ClientOptions(Head(conns[k].down).body)} :
              LET Ready(o) == [conns EXCEPT ![k] = [Taken(@) EXCEPT !.copt = o]]
                  body == RequestBody(0, "AUTH", NoMetadata,
                                      EncodeAll(Written["AUTH"], Login.args))
              IN \/ options = {} /\ AttemptFails(w, After(k))
                 \/ \E o \in options :
                      IF scene.client.login = "none" THEN Established(w, Ready(o))
                      ELSE \/ MayNotFit(body, o) /\ AttemptFails(w, Ready(o))
                           \/ \E f \in EncodeFrame(body, o) :
                                /\ conns' = [Ready(o) EXCEPT ![k] = Sent(@, f)]
                                /\ workers' = [workers EXCEPT ![w].phase = "auth"]
                                /\ UNCHANGED calls
  /\ UNCHANGED <<scene, pool, cli, served, faults>>

AuthAnswered(w) ==
  /\ workers[w].phase = "auth"
  /\ LET k == workers[w].fresh
     IN \/ HasFailed(k, conns[k].copt) /\ AttemptFails(w, After(k))
        \/ /\ HasFrame(k, conns[k].copt)
           /\ \E response \in {DecodeResponse(Head(conns[k].down).body)} :
                IF response.got = "ok" /\ response.value.status = Ok
                THEN Established(w, After(k))
                ELSE AttemptFails(w, After(k))
  /\ UNCHANGED <<scene, pool, cli, served, faults>>

(* send_json_rpc_once: the request.  Nobody looks at its identifier.          *)
WriteCall(w) ==
  /\ workers[w].phase = "write"
  /\ LET k == workers[w].conn
         call == scene.calls[workers[w].job]
         body == RequestBody(0, call.op, NoMetadata,
                             [i \in 1 .. call.size |-> workers[w].job])
     IN \/ MayNotFit(body, conns[k].copt) /\ AttemptFails(w, conns)
        \/ \E f \in EncodeFrame(body, conns[k].copt) :
             /\ conns' = [conns EXCEPT ![k] = Sent(@, f)]
             /\ workers' = [workers EXCEPT ![w].phase = "read"]
             /\ UNCHANGED calls
  /\ UNCHANGED <<scene, pool, cli, served, faults>>

(* ... and its answer.                                                        *)
CallAnsweredOrLate(w) ==
  /\ workers[w].phase = "read"
  /\ LET k == workers[w].conn
     IN \/ /\ calls[workers[w].job].phase = "done"
           /\ workers' = [workers EXCEPT ![w].job = 0, ![w].phase = "idle"]
           /\ UNCHANGED <<conns, calls>>
        \/ HasFailed(k, conns[k].copt) /\ AttemptFails(w, After(k))
        \/ /\ HasFrame(k, conns[k].copt)
           /\ \E response \in {DecodeResponse(Head(conns[k].down).body)} :
                IF response.got = "ok" /\ response.value.status = Ok
                THEN /\ conns' = After(k)
                     /\ workers' = [workers EXCEPT ![w].job = 0, ![w].phase = "idle"]
                     /\ calls' = Replied(workers[w].job, "ok", response.value.payload[1])
                ELSE AttemptFails(w, After(k))
  /\ UNCHANGED <<scene, pool, cli, served, faults>>

CallAnswered(w) ==
  /\ workers[w].phase = "read"
  /\ LET k == workers[w].conn
     IN \/ HasFailed(k, conns[k].copt) /\ AttemptFails(w, After(k))
        \/ /\ HasFrame(k, conns[k].copt)
           /\ \E response \in {DecodeResponse(Head(conns[k].down).body)} :
                IF response.got = "ok" /\ response.value.status = Ok
                THEN /\ conns' = After(k)
                     /\ workers' = [workers EXCEPT ![w].job = 0, ![w].phase = "idle"]
                     /\ calls' = Replied(workers[w].job, "ok", response.value.payload[1])
                ELSE AttemptFails(w, After(k))
  /\ UNCHANGED <<scene, pool, cli, served, faults>>

(* recv returns None when every sender is gone: the pool's and those of the   *)
(* tasks inside send_once.                                                    *)
WorkerEnds(w) ==
  /\ workers[w].phase = "idle"
  /\ workers[w].queue = <<>>
  /\ pool # w
  /\ \A c \in DOMAIN calls : calls[c].worker # w
  /\ workers' = [workers EXCEPT ![w] = [NewWorker EXCEPT !.alive = FALSE, !.phase = "ended"]]
  /\ conns' = Dropped(conns, {workers[w].conn})
  /\ UNCHANGED <<scene, pool, calls, cli, served, faults>>

WorkerStep(w) ==
  /\ w \in DOMAIN workers
  /\ \/ Take(w) \/ Connect(w) \/ HelloAnswered(w) \/ AuthAnswered(w)
     \/ WriteCall(w) \/ CallAnswered(w) \/ WorkerEnds(w)

-----------------------------------------------------------------------------
(* Faults.  A connection is reset, with or without what the client had        *)
(* already been sent, or the server closes it because it has been idle; a     *)
(* frame is damaged on its way.                                               *)

Reset(k) ==
  /\ conns[k].server # "closed"
  /\ \E kept \in {conns[k].down, <<>>} :
       conns' = [conns EXCEPT ![k] = [Closed(@) EXCEPT !.down = kept]]

Idle(k) ==
  /\ conns[k].server = "serving"
  /\ conns[k].up = <<>>
  /\ conns' = [conns EXCEPT ![k] = Closed(@)]

Damage(k) ==
  \/ /\ conns[k].up # <<>>
     /\ conns' = [conns EXCEPT ![k].up[1].intact = FALSE]
  \/ /\ conns[k].down # <<>>
     /\ conns' = [conns EXCEPT ![k].down[1].intact = FALSE]

Fault ==
  /\ faults > 0
  /\ faults' = faults - 1
  /\ \E k \in DOMAIN conns : conns[k].held /\ (Reset(k) \/ Idle(k) \/ Damage(k))
  /\ UNCHANGED <<scene, pool, workers, calls, cli, served>>

-----------------------------------------------------------------------------

Init ==
  /\ scene \in Scenes
  /\ conns = <<>>
  /\ pool = 0
  /\ workers = <<>>
  /\ calls = [c \in DOMAIN scene.calls |->
                [phase |-> "start", tries |-> 1, worker |-> 0, outcome |-> "none", reply |-> 0]]
  /\ cli = [phase |-> IF scene.calls = <<>> THEN "start" ELSE "none", at |-> 1, why |-> "none"]
  /\ served = [commands |-> <<>>, calls |-> [c \in DOMAIN scene.calls |-> 0]]
  /\ faults = scene.faults

Tasks ==
  \/ \E k \in 1 .. MaxConns : ServerStep(k)
  \/ \E w \in 1 .. MaxWorkers : WorkerStep(w)
  \/ \E c \in DOMAIN calls : CallStep(c)
  \/ CliStep

Next == Tasks \/ (\E c \in DOMAIN calls : TimeOut(c)) \/ Fault

(* As long as a task can go on, one does; nothing makes a fault or a timeout  *)
(* happen.  The runtime promises more, progress of each task, but the tasks   *)
(* of a scene cannot go on for ever.                                          *)
Fairness == WF_vars(Tasks)

Spec == Init /\ [][Next]_vars /\ Fairness

-----------------------------------------------------------------------------
(* The shape of the state: the channel of a worker never holds more than its  *)
(* capacity (mpsc::channel(128)), and a task waits for a worker that is       *)
(* there.                                                                     *)
LinkTypeOK ==
  /\ Len(conns) <= MaxConns
  /\ Len(workers) <= MaxWorkers
  /\ pool \in 0 .. Len(workers)
  /\ \A k \in DOMAIN conns : conns[k].server \in {"hello", "serving", "closed"}
  /\ \A w \in DOMAIN workers : Len(workers[w].queue) <= scene.capacity
  /\ \A c \in DOMAIN calls :
       calls[c].phase \in {"sending", "waiting"} => workers[calls[c].worker].alive

(* No end ever refuses a frame that arrives as the other end wrote it: what   *)
(* negotiate_server_options keeps for the server and what                     *)
(* client_options_from_server_hello takes from the hello are limits that the  *)
(* other end's encode_frame has already applied, compressed or not.           *)
FramesFit ==
  \A k \in DOMAIN conns :
    LET conn == conns[k]
        Fit(frames, options) ==
          \A i \in DOMAIN frames : frames[i].intact => Accepts(frames[i], options)
    IN /\ conn.server = "hello" => Fit(conn.up, DefaultOptions)
       /\ conn.server = "serving" => Fit(conn.up, conn.sopt)
       /\ Fit(conn.down, IF conn.copt = NoOptions THEN DefaultOptions ELSE conn.copt)

(* A command that the server carries out is, field for field and with its     *)
(* metadata, the command that was given to the client: into_command undoes    *)
(* from_command, each command is carried out once at most, and in order.      *)
CommandsArrive ==
  cli.phase # "none" => \A i \in DOMAIN served.commands :
    /\ served.commands[i][2] = Script[served.commands[i][1]]
    /\ i > 1 => served.commands[i - 1][1] < served.commands[i][1]

(* No payload that a client has sent is a command when cells are taken off    *)
(* its end, or one is put after it.  The one exception is the SET without the *)
(* if_version field, which decode_set reads as the SET of an older client.    *)
PayloadsUnambiguous ==
  \A k \in DOMAIN conns : \A f \in Range(conns[k].up) :
    LET r == DecodeRequest(f.body).value
        Prefix(n) == SubSeq(r.payload, 1, n)
        Old(n) == /\ r.op = "SET"
                  /\ DecodeAll(Written["SET"], Prefix(n)).got # "ok"
                  /\ IntoCommand("SET", Prefix(n)).value[7] = Nothing
    IN (conns[k].server = "serving" /\ r.op \in DOMAIN Readable) =>
         /\ \A n \in 0 .. Len(r.payload) - 1 :
              IntoCommand(r.op, Prefix(n)).got = "ok" => Old(n)
         /\ \A x \in 0 .. 2 : IntoCommand(r.op, Append(r.payload, x)).got # "ok"

(* The command line client can show every answer the server gives to the      *)
(* command it sent, the QUEUED of a transaction included, and never finds an  *)
(* answer to another one: it ends only when it cannot write a command or when *)
(* the connection has ended.  The exception is LIST, whose values             *)
(* render_response wants to be UTF-8.                                         *)
AnswersReadable ==
  /\ cli.why # "mismatch"
  /\ cli.why = "unreadable" => Script[cli.at].op = "LIST"

(* An append or heartbeat that returns a response returns the peer's response *)
(* to this very call, though nothing compares the identifiers: calls share a  *)
(* connection, time out while the worker goes on, and are retried.            *)
OwnAnswer ==
  \A c \in DOMAIN calls :
    calls[c].outcome = "ok" => calls[c].reply = c /\ served.calls[c] >= 1

(* The two layers of retries, send_json_rpc's and send_with_retry's, make the *)
(* peer carry out one call at most four times, whatever fails and however     *)
(* late a request is read.                                                    *)
DeliveriesBounded == \A c \in DOMAIN calls : served.calls[c] <= 4

(* Every append and heartbeat returns, and the command line client comes to   *)
(* an end, as long as connections answer, fail or close (none of the waits of *)
(* the worker has a timeout of its own).                                      *)
EveryCallReturns ==
  /\ \A c \in 1 .. MaxWorkers :
       (c \in DOMAIN calls) ~> (c \in DOMAIN calls /\ calls[c].phase = "done")
  /\ (cli.phase = "start") ~> (cli.phase \in {"done", "failed"})

(* A worker that remove_peer has taken out of the pool ends, with its         *)
(* connection, once the tasks that still hold its sender have returned.       *)
WorkersEnd ==
  \A w \in 1 .. MaxWorkers :
    (w \in DOMAIN workers /\ pool # w) ~> (w \in DOMAIN workers /\ ~workers[w].alive)
=============================================================================

--------------------------- MODULE GroundStation ---------------------------
(***************************************************************************)
(* The Central as a server of ground stations (central --serve, main.cpp   *)
(* runGroundServer, GroundServer.cpp) and the ground stations              *)
(* (groundstation/src), over TCP.  The server loads the CSV files once,    *)
(* while another process may be saving them, and then handles one          *)
(* connection at a time, the others waiting in the listen queue.           *)
(*                                                                         *)
(* TCP delivers frames whole and in order until one end goes away: then    *)
(* what the other end has not read yet may or may not reach it.  The       *)
(* queue of connections is longer than the number of clients.              *)
(***************************************************************************)
EXTENDS CentralDatabase

CONSTANTS
    Clients,
    Requests,       \* [list, from, to]
    SOCK_N          \* frames the socket holds before a write blocks

ASSUME GroundAssumption ==
    /\ "none" \notin Clients
    /\ Requests \subseteq [list : Lists, from : Nat, to : Nat] /\ Requests # {}
    /\ SOCK_N \in Nat \ {0}

VARIABLES
    server,         \* "down", "load": reads a file, "events": the other, "up"
    snap,           \* the server's database
    base,           \* history: the save the server loaded, if it was one complete save
    queue,          \* connections not accepted yet
    current,        \* the connection in handleClient
    todo,           \* frames it has still to write
    end             \* the clients and their ends of the connections

process == <<server, snap, base>>
conns   == <<queue, current, todo>>
vars    == <<dbVars, left, process, conns, end>>

None == "none"

\* A ground station is off, at its menu, reading an answer, or it ended ("left",
\* or "failed" after an answer that did not add up) and the server does not
\* know.  Its request may be pending, read by nobody yet; frames are down, on
\* their way to it; its rows are what it has read of an answer; its connection
\* is cut once the server has gone.  It was served this database (history).
Off ==
    [at |-> "off", asked |-> CHOOSE r \in Requests : TRUE, pending |-> FALSE,
     down |-> <<>>, rows |-> <<>>, cut |-> FALSE, served |-> Empty]

Gone(c) == end[c].at \in {"left", "failed"}

Done(n) == [tag |-> "DONE", count |-> n]
Row(list, ts) == [tag |-> list, ts |-> ts]

Rows(d, r) == InRange(d[r.list], r.from, r.to)

----------------------------------------------------------------------------
Init ==
    /\ DbInit
    /\ server = "down" /\ snap = Empty /\ base = {}
    /\ queue = <<>> /\ current = None /\ todo = <<>>
    /\ end = [c \in Clients |-> Off]

----------------------------------------------------------------------------
(* The server *)

ServerStart ==
    /\ server = "down"
    /\ Use("starts")
    /\ server' = "load"
    /\ UNCHANGED <<dbVars, snap, base, conns, end>>

\* the first line taken for a header
ServerLoadSkips ==
    /\ server = "load"
    /\ server' = "events"
    /\ snap' = [Empty EXCEPT !["meas"] = IF disk["meas"] = <<>> THEN <<>> ELSE Tail(disk["meas"])]
    /\ base' = IF intact THEN {saved} ELSE {}
    /\ UNCHANGED <<dbVars, left, conns, end>>

\* loadCsv: measurements.csv
ServerLoad ==
    /\ server = "load"
    /\ server' = "events"
    /\ snap' = [Empty EXCEPT !["meas"] = disk["meas"]]
    /\ base' = IF intact THEN {saved} ELSE {}
    /\ UNCHANGED <<dbVars, left, conns, end>>

\* events.csv; then listenOn
ServerListen ==
    /\ server = "events"
    /\ server' = "up"
    /\ snap' = Prune([snap EXCEPT !["events"] = disk["events"]])
    /\ UNCHANGED <<dbVars, left, base, conns, end>>

\* serveForever: accept
Accept ==
    /\ server = "up" /\ current = None
    /\ queue # <<>>
    /\ current' = Head(queue) /\ queue' = Tail(queue)
    /\ UNCHANGED <<dbVars, left, process, todo, end>>

\* no answer where nothing is found
HandleSilent ==
    /\ current # None /\ todo = <<>>
    /\ end[current].pending
    /\ end' = [end EXCEPT ![current].pending = FALSE]
    /\ LET r == end[current].asked  found == Rows(snap, r) IN
           todo' = IF found = <<>> THEN <<>>
                   ELSE [i \in DOMAIN found |-> Row(r.list, found[i])] \o <<Done(Len(found))>>
    /\ UNCHANGED <<dbVars, left, process, queue, current>>

\* handleClient: a request is read and the rows are looked up
Handle ==
    /\ current # None /\ todo = <<>>
    /\ end[current].pending
    /\ end' = [end EXCEPT ![current].pending = FALSE]
    /\ LET r == end[current].asked  found == Rows(snap, r) IN
           todo' = [i \in DOMAIN found |-> Row(r.list, found[i])] \o <<Done(Len(found))>>
    /\ UNCHANGED <<dbVars, left, process, queue, current>>

\* netWriteFrame to a client that is there
Write ==
    /\ current # None /\ todo # <<>>
    /\ ~Gone(current) /\ Len(end[current].down) < SOCK_N
    /\ end' = [end EXCEPT ![current].down = Append(@, Head(todo))]
    /\ todo' = Tail(todo)
    /\ UNCHANGED <<dbVars, left, process, queue, current>>

\* without close()
CloseCurrentLeaks ==
    /\ current' = None /\ todo' = <<>>
    /\ UNCHANGED <<dbVars, left, process, queue, end>>

\* the connection is closed, and the next one accepted
CloseCurrent ==
    /\ current' = None /\ todo' = <<>>
    /\ end' = [end EXCEPT ![current] = Off]
    /\ UNCHANGED <<dbVars, left, process, queue>>

\* netReadFrame finds the end of the connection
HangUp ==
    /\ current # None /\ todo = <<>>
    /\ Gone(current) /\ ~end[current].pending
    /\ CloseCurrent

\* The process ends, and with it its connections.
Die ==
    /\ server' = "down" /\ snap' = Empty /\ base' = {}
    /\ queue' = <<>> /\ current' = None /\ todo' = <<>>
    /\ end' = [c \in Clients |-> IF end[c].at = "off" \/ Gone(c) THEN Off ELSE [end[c] EXCEPT !.cut = TRUE]]
    /\ UNCHANGED <<dbVars, left>>

\* A write to a client that has left: the first one may still go through; then
\* write() fails, or raises SIGPIPE, which nobody catches.
WriteToLeft ==
    /\ current # None /\ todo # <<>>
    /\ Gone(current)
    /\ \/ todo' = Tail(todo) /\ UNCHANGED <<dbVars, left, process, queue, current, end>>
       \/ CloseCurrent
       \/ Die

\* Ctrl-C
ServerStop == server # "down" /\ Die

----------------------------------------------------------------------------
(* The ground stations *)

Becomes(c, e) == end' = [end EXCEPT ![c] = e] /\ UNCHANGED <<dbVars, process, current, todo>>

Connect(c) ==
    /\ end[c].at = "off"
    /\ server = "up" /\ left["asks"] > 0
    /\ queue' = Append(queue, c)
    /\ Becomes(c, [Off EXCEPT !.at = "menu", !.served = snap])
    /\ UNCHANGED left

\* getLog, getEvents
Ask(c) ==
    /\ end[c].at = "menu"
    /\ Use("asks")
    /\ \E r \in Requests : Becomes(c, [end[c] EXCEPT !.at = "reading", !.asked = r, !.pending = TRUE])
    /\ UNCHANGED queue

\* A frame is read.  After the last one the answer counts if its rows do;
\* otherwise the program says so and ends.
ReadFrame(c) ==
    /\ end[c].at = "reading"
    /\ end[c].down # <<>>
    /\ LET f == Head(end[c].down)
           e == [end[c] EXCEPT !.down = Tail(@)] IN
           Becomes(c, IF f.tag = "DONE"
                      THEN [e EXCEPT !.at = IF f.count = Len(e.rows) THEN "menu" ELSE "failed", !.rows = <<>>]
                      ELSE IF f.tag = e.asked.list THEN [e EXCEPT !.rows = Append(@, f.ts)] ELSE e)
    /\ UNCHANGED <<left, queue>>

\* the end of the connection taken for the end of the answer
ReadEndAccepted(c) ==
    /\ end[c].at = "reading" /\ end[c].cut
    /\ Becomes(c, [end[c] EXCEPT !.at = "menu"])
    /\ UNCHANGED <<left, queue>>

\* The server is gone: read() or write() fails, the program ends.
ReadEnd(c) ==
    /\ end[c].at = "reading" /\ end[c].cut
    /\ Becomes(c, Off)
    /\ UNCHANGED <<left, queue>>

\* The program ends, at its menu or while it reads.
Leave(c) ==
    /\ end[c].at \in {"menu", "reading"}
    /\ Becomes(c, IF end[c].cut THEN Off ELSE [end[c] EXCEPT !.at = "left", !.down = <<>>, !.rows = <<>>])
    /\ UNCHANGED <<left, queue>>

----------------------------------------------------------------------------
\* The session's program.  It has nothing to do with clients nor with a server
\* that is up: while there are any, it waits, since the steps commute.
Session ==
    /\ server # "up" /\ \A c \in Clients : end[c].at = "off"
    /\ DbNext
    /\ base' = IF server = "events" /\ disk' # disk THEN {} ELSE base
    /\ UNCHANGED <<server, snap, conns, end>>

Server == ServerLoad \/ ServerListen \/ Accept \/ Handle \/ Write \/ HangUp \/ WriteToLeft

Next ==
    \/ Session
    \/ Server \/ ServerStart \/ ServerStop
    \/ \E c \in Clients : Connect(c) \/ Ask(c) \/ ReadFrame(c) \/ ReadEnd(c) \/ Leave(c)

Spec == Init /\ [][Next]_vars

\* The server and the clients go on as long as they have something to do.
Fairness == WF_vars(Server) /\ \A c \in Clients : WF_vars(ReadFrame(c) \/ ReadEnd(c))

FairSpec == Spec /\ Fairness

----------------------------------------------------------------------------
(* Properties *)

Frame == [tag : Lists, ts : Times] \cup [tag : {"DONE"}, count : Nat]

\* Types of the state; whoever is connected is being served or in the queue.
TypeOK ==
    /\ DbTypeOK
    /\ server \in {"down", "load", "events", "up"}
    /\ snap \in [Lists -> Seq(Times)]
    /\ queue \in Seq(Clients) /\ current \in Clients \cup {None}
    /\ todo \in Seq(Frame)
    /\ \A c \in Clients :
           /\ end[c].at \in {"off", "menu", "reading", "left", "failed"}
           /\ end[c].asked \in Requests
           /\ end[c].down \in Seq(Frame) /\ Len(end[c].down) <= SOCK_N
           /\ end[c].rows \in Seq(Times)
           /\ end[c].at # "off" /\ ~end[c].cut <=> c = current \/ c \in ToSet(queue)
    /\ current # None => server = "up"

\* A server that loaded a complete save while nobody wrote has exactly the
\* last week of one session: the one that saved last, as it was then.
ServedIsSaved == server = "up" /\ base # {} => base = {snap}

\* An answer that getLog or getEvents takes for complete is what the server
\* had of the range, whole and in order, whenever server and clients end; and
\* no answer read to its end is taken for incomplete.
AnswerWhole ==
    [][\A c \in Clients :
          end[c].at = "reading" =>
              /\ end'[c].at # "failed"
              /\ end'[c].at = "menu" => end[c].rows = Rows(end[c].served, end[c].asked)]_vars

\* As long as no ground station stays at its menu for ever, whoever has asked
\* gets an answer or learns that the server has gone, also if others leave in
\* the middle of theirs.
Answered ==
    (\A c \in Clients : []<>(end[c].at # "menu")) =>
        \A c \in Clients : end[c].at = "reading" ~> end[c].at # "reading"
=============================================================================

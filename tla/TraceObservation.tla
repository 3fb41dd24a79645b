--------------------------- MODULE TraceObservation ---------------------------
(***************************************************************************)
(* A traced process tree and what is read of it: the kernel acts, strace   *)
(* (src/container: -ff -ttt -yy) writes one line per call into the file of *)
(* the thread, and may be killed with the container; then strace-parser.ts *)
(* judges the files and strace-normalizer.ts makes events and gaps.        *)
(*                                                                         *)
(* The state keeps what the kernel did (facts) beside what was written of  *)
(* it (trace), so that the two can be compared.                            *)
(***************************************************************************)
EXTENDS StraceNormalizer

CONSTANTS MaxLines,   (* bound on the lines of a trace                      *)
          NumPids     (* bound on the threads: their ids are 1..NumPids     *)

ASSUME TraceAssumption == MaxLines \in Nat /\ NumPids \in Nat \ {0}

VARIABLES
  leader,    (* the process of each thread, 0 before it is made             *)
  tableOf,   (* the descriptor table of each thread                         *)
  fds,       (* the descriptor tables: [Fds -> sockets], 0 is closed        *)
  sockets,   (* the sockets made so far: family, and whether it is bound    *)
  facts,     (* what the kernel did, and the line that tells it, 0 if none  *)
  trace,     (* the records of all the trace files, in time order           *)
  marked,    (* the threads whose trace file ends with a terminal marker    *)
  cut,       (* a line is unfinished or malformed                           *)
  tracing,   (* "on", "off", and "read" after the normalizer                *)
  events,    (* the canonical events                                        *)
  gaps       (* the policy-relevant gaps: line and category                 *)

kernelVars == <<leader, tableOf, fds, sockets>>
traceVars == <<kernelVars, facts, trace, marked, cut, tracing, events, gaps>>

Pids == 1..NumPids
Fds == {3, 4}
NoTable == [fd \in Fds |-> 0]

TraceInit ==
  /\ leader = [p \in Pids |-> IF p = 1 THEN 1 ELSE 0]
  /\ tableOf = [p \in Pids |-> 1]
  /\ fds = <<NoTable>>
  /\ sockets = <<>>
  /\ facts = {} /\ trace = <<>>
  /\ marked = {} /\ cut = FALSE
  /\ tracing = "on"
  /\ events = {} /\ gaps = {}

-----------------------------------------------------------------------------
(* A line of strace, with the defaults of the fields a call does not use.  *)
Line == [pid |-> 1, sys |-> "none", flags |-> {}, outcome |-> "succeeded",
         text |-> "none", near |-> TRUE, rooted |-> TRUE, where |-> "none",
         dir |-> FALSE, text2 |-> "none", where2 |-> "none", moved |-> TRUE,
         fd |-> 0, target |-> 0, note |-> NoNote, says |-> {}, at |-> 0]

Live(p) == leader[p] # 0 /\ p \notin marked

(* What the kernel did, for the comparison: the process, the place or the  *)
(* endpoint, and whether the observation policy cares.                     *)
Fact(p, line, at, relevant) ==
  [line |-> Len(trace) + 1, process |-> leader[p], sys |-> line.sys,
   places |-> {line.where, line.where2, line.note.place} \ {"none"},
   at |-> at, outcome |-> line.outcome, relevant |-> relevant]

Writes(p, line, at, relevant) ==
  /\ tracing = "on" /\ Live(p) /\ Len(trace) < MaxLines
  /\ trace' = Append(trace, [line EXCEPT !.pid = p])
  /\ facts' = facts \union {Fact(p, line, at, relevant)}
  /\ UNCHANGED <<cut, tracing, events, gaps>>

(* Bound: a trace has at most one call of these kinds or interrupted.      *)
RareCalls == {"close_range", "recvmsg", "execve", "dup2"}

Seldom == \A i \in DOMAIN trace : trace[i].sys \notin RareCalls
                                  /\ trace[i].outcome = "succeeded"

Table(p) == fds[tableOf[p]]

(* The annotation of a descriptor that holds a socket.                     *)
SocketNote(s) ==
  IF s = 0 THEN NoNote
  ELSE IF sockets[s].family = "tcp" /\ sockets[s].bound
  THEN [NoNote EXCEPT !.family = "tcp", !.at = s]
  ELSE [NoNote EXCEPT !.family = sockets[s].family, !.id = s]

Lowest(p, fd) ==
  Table(p)[fd] = 0 /\ \A other \in Fds : Table(p)[other] = 0 => fd <= other

(* clone: a thread shares everything, a process may share descriptors.     *)
Clone(p, child, flags) ==
  /\ leader[child] = 0 /\ \A q \in 1..(child - 1) : leader[q] # 0
  /\ "CLONE_THREAD" \in flags => "CLONE_FILES" \in flags
  /\ leader' = [leader EXCEPT ![child] =
                  IF "CLONE_THREAD" \in flags THEN leader[p] ELSE child]
  /\ IF "CLONE_FILES" \in flags
     THEN /\ tableOf' = [tableOf EXCEPT ![child] = tableOf[p]]
          /\ UNCHANGED fds
     ELSE /\ tableOf' = [tableOf EXCEPT ![child] = Len(fds) + 1]
          /\ fds' = Append(fds, Table(p))
  /\ Writes(p, [Line EXCEPT !.sys = "clone", !.flags = flags,
                            !.target = child], child, FALSE)
  /\ UNCHANGED <<sockets, marked>>

MakeSocket(p, family, fd) ==
  /\ Lowest(p, fd)
  /\ sockets' = Append(sockets, [family |-> family, bound |-> FALSE])
  /\ fds' = [fds EXCEPT ![tableOf[p]][fd] = Len(sockets) + 1]
  /\ Writes(p, [Line EXCEPT !.sys = "socket", !.target = fd], 0, FALSE)
  /\ UNCHANGED <<leader, tableOf, marked>>

(* Each socket is bound to an address of its own, named after it.  Bound:  *)
(* only in the single calls below does a path say a family's name.         *)
Bind(p, fd) ==
  LET s == Table(p)[fd] IN
  /\ s # 0 /\ ~sockets[s].bound
  /\ sockets' = [sockets EXCEPT ![s].bound = TRUE]
  /\ Writes(p, [Line EXCEPT !.sys = "bind", !.fd = fd, !.at = s,
                            !.note = SocketNote(s)], s, TRUE)
  /\ UNCHANGED <<leader, tableOf, fds, marked>>

Listen(p, fd) ==
  LET s == Table(p)[fd] IN
  /\ s # 0
  /\ Writes(p, [Line EXCEPT !.sys = "listen", !.fd = fd,
                            !.note = SocketNote(s)],
            IF sockets[s].bound THEN s ELSE 0, TRUE)
  /\ UNCHANGED <<kernelVars, marked>>

Dup2(p, from, to) ==
  /\ from # to /\ Table(p)[from] # 0
  /\ fds' = [fds EXCEPT ![tableOf[p]][to] = Table(p)[from]]
  /\ Writes(p, [Line EXCEPT !.sys = "dup2", !.fd = from, !.target = to],
            0, FALSE)
  /\ UNCHANGED <<leader, tableOf, sockets, marked>>

(* An interrupted close has closed the descriptor all the same.            *)
Close(p, fd, outcome) ==
  /\ Table(p)[fd] # 0
  /\ fds' = [fds EXCEPT ![tableOf[p]][fd] = 0]
  /\ Writes(p, [Line EXCEPT !.sys = "close", !.fd = fd, !.outcome = outcome],
            0, FALSE)
  /\ UNCHANGED <<leader, tableOf, sockets, marked>>

CloseAll(p, flags) ==
  /\ IF "UNSHARE" \in flags
     THEN /\ tableOf' = [tableOf EXCEPT ![p] = Len(fds) + 1]
          /\ fds' = Append(fds, IF "CLOEXEC" \in flags THEN Table(p)
                                ELSE NoTable)
     ELSE /\ fds' = IF "CLOEXEC" \in flags THEN fds
                    ELSE [fds EXCEPT ![tableOf[p]] = NoTable]
          /\ UNCHANGED tableOf
  /\ Writes(p, [Line EXCEPT !.sys = "close_range", !.flags = flags], 0, FALSE)
  /\ UNCHANGED <<leader, sockets, marked>>

(* A descriptor that arrives with a message: no call names its number.     *)
Receive(p, s, fd) ==
  /\ s \in DOMAIN sockets /\ Lowest(p, fd)
  /\ fds' = [fds EXCEPT ![tableOf[p]][fd] = s]
  /\ Writes(p, [Line EXCEPT !.sys = "recvmsg",
                            !.note = [NoNote EXCEPT !.family = "unix"]],
            0, FALSE)
  /\ UNCHANGED <<leader, tableOf, sockets, marked>>

(* execve by a process with one thread: it keeps a copy of its table, less *)
(* what is marked close-on-exec.                                           *)
Execve(p, closed) ==
  /\ \A q \in Pids \ {p} : leader[q] # leader[p]
  /\ tableOf' = [tableOf EXCEPT ![p] = Len(fds) + 1]
  /\ fds' = Append(fds, [fd \in Fds |-> IF fd \in closed THEN 0
                                        ELSE Table(p)[fd]])
  /\ Writes(p, [Line EXCEPT !.sys = "execve", !.text = "absolute",
                            !.where = "outside"], 0, TRUE)
  /\ UNCHANGED <<leader, sockets, marked>>

(* exit_group ends every thread of the process, each with its marker.      *)
Exit(p) ==
  /\ marked' = marked \union {q \in Pids : leader[q] = leader[p]}
  /\ Writes(p, [Line EXCEPT !.sys = "exit_group", !.outcome = "unknown"],
            0, FALSE)
  /\ UNCHANGED kernelVars

-----------------------------------------------------------------------------
(* Calls that change neither descriptors nor processes.  Each is a line    *)
(* strace may render in several ways: with an absolute, relative,          *)
(* truncated or empty path, the directory annotated or not.                *)
Outcomes == {"succeeded", "failed", "unknown"}
Places == {"inside", "outside"}
WithoutDirectory == {"open", "chmod", "unlink", "rename", "stat", "execve"}
WithDirectory == {"openat", "mkdirat", "unlinkat", "renameat", "statx",
                  "execveat"}

(* The renderings of a path: text, near, rooted, dir.                      *)
Renderings(sys, place) ==
  {q \in [text : {"absolute", "relative", "truncated", "empty"},
          near : BOOLEAN, rooted : BOOLEAN, dir : BOOLEAN] :
     /\ q.dir => sys \in WithDirectory
     /\ q.text # "truncated" => q.near /\ q.rooted
     /\ place = "inside" => q.near
     /\ q.text = "empty" => sys \in {"execveat", "statx"}}

FlagsOf(sys) ==
  CASE sys \in Opens -> SUBSET {"O_CREAT", "O_TRUNC", "O_TMPFILE"}
    [] sys = "execve" -> {{}, {"ARGV_TRUNCATED"}}
    [] sys \in {"execveat", "statx"} -> {{"AT_EMPTY_PATH"}}
    [] OTHER -> {{}}

PathCall(sys, place, outcome, flags, q) ==
  [Line EXCEPT !.sys = sys, !.where = place, !.outcome = outcome,
     !.flags = flags, !.text = q.text, !.near = q.near,
     !.rooted = q.rooted, !.dir = q.dir]

PathCalls ==
  UNION {{PathCall(sys, place, outcome, flags, q) :
            q \in Renderings(sys, place), flags \in FlagsOf(sys)} :
         sys \in (WithoutDirectory \union WithDirectory) \ PairMutations,
         place \in Places, outcome \in Outcomes}

PairCall(sys, place, place2, outcome, text, text2) ==
  [Line EXCEPT !.sys = sys, !.where = place, !.where2 = place2,
     !.outcome = outcome, !.text = text, !.text2 = text2]

PairCalls ==
  {PairCall(sys, place, place2, outcome, text, text2) :
     sys \in PairMutations, place \in Places, place2 \in Places,
     outcome \in Outcomes, text \in {"absolute", "relative"},
     text2 \in {"absolute", "truncated"}}

DescriptorCall(sys, outcome, moved, place) ==
  [Line EXCEPT !.sys = sys, !.outcome = outcome, !.moved = moved,
     !.note = [NoNote EXCEPT !.family = "file", !.place = place]]

DescriptorCalls ==
  {DescriptorCall(sys, outcome, moved, place) :
     sys \in {"read", "write", "getdents", "ftruncate", "fstat", "mmap"},
     outcome \in Outcomes, moved \in BOOLEAN, place \in Places}

(* What a payload may say, and the path of a Unix socket's address.        *)
Sayings(sys, family) ==
  CASE sys \in {"sendto", "recvmsg"} -> SUBSET {"AF_UNIX", "AF_NETLINK"}
    [] sys \in {"connect", "bind"} /\ family = "unix" ->
         SUBSET {"AF_NETLINK"}
    [] OTHER -> {{}}

SocketCall(sys, outcome, moved, family, says) ==
  [Line EXCEPT !.sys = sys, !.outcome = outcome, !.moved = moved, !.fd = 3,
     !.at = IF sys \in {"connect", "bind"} THEN 9 ELSE 0,
     !.note = [NoNote EXCEPT !.family = family], !.says = says]

SocketCalls ==
  UNION {{SocketCall(sys, outcome, moved, family, says) :
            outcome \in Outcomes, moved \in BOOLEAN,
            says \in Sayings(sys, family)} :
         sys \in {"read", "write", "sendto", "recvmsg", "connect", "bind"},
         family \in {"tcp", "udp", "unix", "netlink"}}

OtherCall(call, outcome) ==
  [Line EXCEPT !.sys = call[1], !.flags = call[2], !.outcome = outcome]

OtherCalls ==
  {OtherCall(call, outcome) :
     call \in {<<"mount", {}>>, <<"kill", {}>>, <<"kill", {"SIGNAL_ZERO"}>>,
               <<"io_submit", {}>>, <<"io_uring_setup", {}>>},
     outcome \in Outcomes}

SingleCalls ==
  PathCalls \union PairCalls \union DescriptorCalls \union SocketCalls
    \union OtherCalls

(* What the observation policy cares about, said of the call itself: every *)
(* execution, every use of a path inside, whatever leaves or enters by the *)
(* Internet, and every attempt on the sandbox.                             *)
Matters(line) ==
  LET family == line.note.family
      inside == "inside" \in {line.where, line.where2, line.note.place}
  IN CASE line.sys \in {"execve", "execveat"} -> TRUE
       [] line.sys \in {"connect", "bind"} -> family # "netlink"
       [] line.sys = "sendto" -> family \in Internet
       [] line.sys = "recvmsg" -> family \in Internet /\ Succeeded(line)
       [] line.sys = "write" /\ family # "file" -> family \in Internet
       [] line.sys = "read" /\ family # "file" ->
            family \in Internet /\ Succeeded(line) /\ line.moved
       [] line.sys \in {"read", "write", "getdents"} /\ family = "file" ->
            inside /\ (Succeeded(line) => line.moved)
       [] line.sys \in Escapes \union OpaqueIo ->
            "SIGNAL_ZERO" \notin line.flags
       [] OTHER -> inside

Delete == [Line EXCEPT !.sys = "unlink", !.text = "absolute",
                       !.where = "inside"]

(* Bound: a call of this kind is judged by its line alone, so one such     *)
(* call is the first of a trace that only exits after it.  A listen and    *)
(* the deletion change nothing that a later line depends on: only the exit *)
(* follows them.                                                           *)
Alone ==
  /\ trace # <<>>
  /\ trace[1] \in SingleCalls \/ Last(trace).sys \in {"listen", "unlink"}

Calls(p, line) ==
  /\ Writes(p, line, line.at, Matters(line))
  /\ UNCHANGED <<kernelVars, marked>>

SingleCall(p) == trace = <<>> /\ \E line \in SingleCalls : Calls(p, line)

-----------------------------------------------------------------------------
(* strace ends with the last thread, or is killed with the container: a    *)
(* line may be cut short, and what a thread did last may be lost.          *)
TraceStops(broken, lost) ==
  /\ tracing = "on"
  /\ tracing' = "off"
  /\ cut' = broken
  /\ facts' = facts \union lost
  /\ UNCHANGED <<kernelVars, trace, marked, events, gaps>>

TraceEnds == (\A p \in Pids : ~Live(p)) /\ TraceStops(FALSE, {})

LostCall(p) == [Fact(p, Delete, 0, TRUE) EXCEPT !.line = 0]

(* Bound: a trace is cut before its bound only when it has two lines or    *)
(* less, and it is the first live thread that loses a call.                *)
TraceKilled ==
  \E p \in Pids :
    /\ Live(p) /\ \A q \in 1..(p - 1) : ~Live(q)
    /\ \/ Len(trace) = MaxLines /\ TraceStops(FALSE, {})
       \/ /\ Len(trace) <= 2
          /\ TraceStops(TRUE, {}) \/ TraceStops(FALSE, {LostCall(p)})

(* readExperimentStraceDetailed(): structural integrity of the files.      *)
TraceFiles == {p \in Pids : leader[p] # 0}

(* Mutant: a missing terminal marker does not degrade a trace.             *)
CompleteUnmarked == TraceFiles # {} /\ trace # <<>> /\ ~cut

IntegrityComplete ==
  /\ TraceFiles # {} /\ trace # <<>>
  /\ ~cut
  /\ TraceFiles \subseteq marked

Normalized ==
  /\ tracing = "off" /\ trace # <<>>
  /\ tracing' = "read"
  /\ events' = EventsOf(trace, Pids, Fds)
  /\ gaps' = GapsOf(trace)
  /\ UNCHANGED <<kernelVars, facts, trace, marked, cut>>

CloneFlags == {{}, {"CLONE_FILES"}, {"CLONE_FILES", "CLONE_THREAD"}}

RareCall(p) ==
  \/ \E from, to \in Fds : Dup2(p, from, to)
  \/ \E flags \in SUBSET {"UNSHARE", "CLOEXEC"} : CloseAll(p, flags)
  \/ \E s \in DOMAIN sockets, fd \in Fds : Receive(p, s, fd)
  \/ \E closed \in {{}, {3}} : Execve(p, closed)
  \/ \E fd \in Fds : Close(p, fd, "unknown")

TraceNext ==
  \/ /\ ~Alone
     /\ \E p \in Pids :
          \/ \E child \in Pids, flags \in CloneFlags : Clone(p, child, flags)
          \/ \E family \in {"unix", "tcp"}, fd \in Fds :
               MakeSocket(p, family, fd)
          \/ \E fd \in Fds : Bind(p, fd) \/ Listen(p, fd)
          \/ \E fd \in Fds : Close(p, fd, "succeeded")
          \/ SingleCall(p) \/ Calls(p, Delete)
          \/ Seldom /\ RareCall(p)
  \/ \E p \in Pids : Exit(p)
  \/ TraceEnds \/ TraceKilled \/ Normalized

TraceSpec == TraceInit /\ [][TraceNext]_traceVars

-----------------------------------------------------------------------------
(* Properties.                                                             *)

Accounted(f) ==
  \/ \E e \in events : e.line = f.line /\ e.kind # "process.start"
  \/ \E g \in gaps : g.line = f.line

(* The text of a call's arguments passes for the address of a local or a   *)
(* netlink socket because a payload or a path says the family's name.      *)
Mistaken(r) ==
  \/ r.sys \in {"connect", "bind"} /\ "AF_NETLINK" \in r.says
  \/ r.sys \in {"sendto", "recvmsg"} /\ r.says # {}

(* When the trace files are structurally complete, everything the process  *)
(* tree did that the policy cares about is an event or a counted gap,      *)
(* however strace rendered it, but for the calls whose arguments say the   *)
(* name of an address family: those may be neither.                        *)
HealthyTraceAccountsForAll ==
  tracing = "read" /\ IntegrityComplete =>
    \A f \in facts : f.relevant =>
      \/ Accounted(f)
      \/ f.line \in DOMAIN trace /\ Mistaken(trace[f.line])

FactAt(line) == CHOOSE f \in facts : f.line = line

(* A socket may be reached by a descriptor of which no call told what it   *)
(* is bound to: it came with a message, an execve replaced the table, or   *)
(* the table or the entry was copied before the bind.                      *)
Copies(r) ==
  \/ r.sys = "dup2"
  \/ r.sys = "clone" /\ "CLONE_FILES" \notin r.flags
  \/ r.sys = "close_range" /\ "UNSHARE" \in r.flags

Untold(socket) ==
  \E i \in DOMAIN trace :
    \/ trace[i].sys \in {"recvmsg", "execve"}
    \/ /\ Copies(trace[i])
       /\ \E j \in i..Len(trace) : trace[j].sys = "bind" /\ trace[j].at = socket

(* An event says of a call what the kernel did: the process that did it,   *)
(* the place, the outcome, the endpoint.  A listen names the address its   *)
(* socket is bound to or none, and names it unless no call told of it.     *)
(* Each process is started once, by its parent.                            *)
EventsMatchKernel ==
  tracing = "read" =>
    /\ \A e \in events :
         LET f == FactAt(e.line) IN
         CASE e.kind = "process.start" /\ e.at # 0 ->
                f.sys = "clone" /\ e.process = f.at /\ e.at = f.process
           [] e.kind = "process.start" /\ e.at = 0 -> e.process = 1
           [] e.kind = "network.listen" /\ f.sys = "listen" ->
                /\ e.process = f.process /\ e.at \in {0, f.at}
                /\ Untold(f.at) \/ e.at = f.at
           [] OTHER -> /\ e.process = f.process /\ e.outcome = f.outcome
                       /\ e.place \in f.places \union {"none"}
                       /\ e.at = f.at
    /\ \A p \in Pids : leader[p] = p =>
         Cardinality({e \in events : e.kind = "process.start"
                                     /\ e.process = p}) = 1

TraceTypeOK ==
  /\ leader \in [Pids -> 0..NumPids]
  /\ \A p \in Pids : tableOf[p] \in DOMAIN fds
  /\ \A t \in DOMAIN fds : fds[t] \in [Fds -> 0..Len(sockets)]
  /\ Len(trace) <= MaxLines /\ marked \subseteq Pids
  /\ tracing \in {"on", "off", "read"}
=============================================================================

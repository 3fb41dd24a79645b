--------------------------- MODULE StraceNormalizer ---------------------------
(***************************************************************************)
(* What strace-normalizer.ts makes of the records of one experiment: the   *)
(* process that owns each record, canonical events, and the records that   *)
(* are counted as policy-relevant gaps.                                    *)
(*                                                                         *)
(* A record keeps what the code reads of a line: the call, the flags found *)
(* in the text of its arguments, its outcome, whether its path argument    *)
(* can be resolved, the annotation of its descriptor, and the address      *)
(* families that the rest of its arguments says (a payload or a socket's   *)
(* path may: the code searches the whole text for their names).  Paths are *)
(* told apart by one bit, inside or outside the policy-relevant prefixes,  *)
(* path mappings applied; an endpoint is a number, 0 when it is unknown.   *)
(***************************************************************************)
EXTENDS Integers, Sequences, SequencesExt, FiniteSets

(* Each family of system calls the code lists is represented by one or two *)
(* of its members.                                                         *)
Opens == {"open", "openat"}
Forks == {"clone"}
PathMutations == {"chmod", "mkdirat"}
DescriptorMutations == {"ftruncate"}
PairMutations == {"rename", "renameat"}
Mutations == PathMutations \union DescriptorMutations \union PairMutations
Probes == {"stat", "statx"}
DescriptorProbes == {"fstat"}
Escapes == {"mount", "kill"}
OpaqueIo == {"io_submit", "io_uring_setup"}

(* Annotations: UNIX sockets by inode, bound TCP sockets by address, files *)
(* by path.                                                                *)
NoNote == [family |-> "none", id |-> 0, at |-> 0, place |-> "none"]
Internet == {"tcp", "udp"}

Unclear(r) == r.outcome = "unknown"
Succeeded(r) == r.outcome = "succeeded"

-----------------------------------------------------------------------------
(* Paths.  A relative path resolves against the annotated directory; an    *)
(* empty one stands for the descriptor itself under AT_EMPTY_PATH; a       *)
(* truncated one does not resolve, and its text is "near" when it could    *)
(* still name a relevant path.                                             *)
Resolves(text, dir) == text = "absolute" \/ (text = "relative" /\ dir)

Nameless(r) == r.text = "empty" /\ r.dir /\ "AT_EMPTY_PATH" \in r.flags

PathOf(r) ==
  IF Resolves(r.text, r.dir) \/ Nameless(r) THEN {r.where} ELSE {}

Plausible(r) ==
  r.text = "truncated" /\ (r.near \/ ~(r.rooted \/ r.dir))

MutatingOpen(r) ==
  r.sys \in Opens /\ r.flags \intersect {"O_CREAT", "O_TMPFILE"} # {}

TruncatingOpen(r) ==
  r.sys \in Opens /\ "O_TRUNC" \in r.flags /\ "O_TMPFILE" \notin r.flags

(* The paths a mutation names, and whether one of them is unresolved.      *)
Mutates(r) == MutatingOpen(r) \/ r.sys \in Mutations

MutationPaths(r) ==
  CASE r.sys \in DescriptorMutations -> {r.note.place} \ {"none"}
    [] MutatingOpen(r) /\ Succeeded(r) -> {r.where}
    [] OTHER -> PathOf(r) \union
         IF r.sys \in PairMutations /\ Resolves(r.text2, r.dir)
         THEN {r.where2} ELSE {}

MutationUnresolved(r) ==
  CASE r.sys \in DescriptorMutations -> r.note.place = "none"
    [] MutatingOpen(r) /\ Succeeded(r) -> FALSE
    [] OTHER -> \/ PathOf(r) = {}
                \/ r.sys \in PairMutations /\ ~Resolves(r.text2, r.dir)

(* An open that did not succeed names its path in its arguments only.      *)
OpenUnresolved(r) ==
  /\ r.sys \in Opens /\ ~MutatingOpen(r) /\ ~TruncatingOpen(r)
  /\ ~Succeeded(r)
  /\ IF r.text = "truncated" THEN Plausible(r) ELSE PathOf(r) = {}

PathUnresolved(r) ==
  \/ r.sys \in {"execve", "execveat", "unlink", "unlinkat"} /\ PathOf(r) = {}
  \/ OpenUnresolved(r)
  \/ /\ r.sys = "getdents" /\ (Succeeded(r) => r.moved)
     /\ r.note.place = "none"
  \/ TruncatingOpen(r) /\ ~Succeeded(r) /\ PathOf(r) = {}

(* What is asked about a path without opening it.                          *)
ProbedPath(r) ==
  IF r.sys \in DescriptorProbes THEN {r.note.place} ELSE PathOf(r)

ProbeUnresolved(r) ==
  r.sys \in Probes /\ IF r.text = "truncated" THEN Plausible(r)
                      ELSE PathOf(r) = {}

-----------------------------------------------------------------------------
(* The gap a record is counted as.                                         *)
ArgsTruncated(r) ==
  r.sys \in {"execve", "execveat"} /\ "ARGV_TRUNCATED" \in r.flags

(* isNetlinkEndpoint(): anywhere in the arguments.                         *)
Netlink(r) == r.note.family = "netlink" \/ "AF_NETLINK" \in r.says

Maps(r) == r.sys = "mmap" /\ "MAP_ANONYMOUS" \notin r.flags

(* The category of a relevant call whose outcome is not known.             *)
UnclearCategory(r) ==
  CASE r.sys \in {"execve", "execveat"} -> "indeterminate_outcome"
    [] r.sys \in {"bind", "connect", "listen"} /\ ~Netlink(r) ->
         "network_endpoint"
    [] r.sys \in {"unlink", "unlinkat"} /\ "inside" \in PathOf(r) ->
         "filesystem_mutation"
    [] r.sys \in Opens /\ "inside" \in PathOf(r) ->
         IF TruncatingOpen(r) THEN "filesystem_mutation"
         ELSE "alternate_file_access"
    [] r.sys = "write" /\ r.note.place = "inside" -> "filesystem_mutation"
    [] r.sys \in {"read", "getdents"} /\ r.note.place = "inside" ->
         "alternate_file_access"
    [] Maps(r) /\ r.note.place = "inside" -> "alternate_file_access"
    [] OTHER -> "none"

(* Bytes that cross an Internet socket by read(2) and write(2).            *)
InternetIo(r) ==
  /\ r.note.family \in Internet
  /\ r.sys = "write" \/ (r.sys = "read" /\ Succeeded(r) /\ r.moved)

(* isLocalOnlyNetworkTransfer(): anywhere in the arguments, AF_LOCAL being *)
(* another name of AF_UNIX.                                                *)
LocalOnly(r) ==
  \/ r.note.family \in {"unix", "netlink"}
  \/ r.says \intersect {"AF_UNIX", "AF_NETLINK"} # {}

Transfers(r) ==
  ~LocalOnly(r) /\ (r.sys = "sendto" \/ (r.sys = "recvmsg" /\ Succeeded(r)))

Interferes(r) ==
  r.sys \in Escapes \/ (r.sys \in Forks /\ "CLONE_NEWUSER" \in r.flags)

SignalZero(r) == r.sys = "kill" /\ "SIGNAL_ZERO" \in r.flags

(* The rules in the order policyRelevantTraceGapCategory() tries them.     *)
GapRules(r) == <<
  <<ArgsTruncated(r), "truncated_arguments">>,
  <<Mutates(r) /\ MutationUnresolved(r), "unresolved_path">>,
  <<Mutates(r) /\ "inside" \in MutationPaths(r), "filesystem_mutation">>,
  <<Mutates(r), "none">>,
  <<PathUnresolved(r), "unresolved_path">>,
  <<Unclear(r) /\ UnclearCategory(r) # "none", UnclearCategory(r)>>,
  <<r.sys = "getdents" /\ Succeeded(r) /\ r.moved /\ r.note.place = "inside",
    "alternate_file_access">>,
  <<ProbeUnresolved(r), "unresolved_path">>,
  <<r.sys \in Probes \union DescriptorProbes /\ "inside" \in ProbedPath(r),
    "alternate_file_access">>,
  <<r.sys = "bind" /\ ~Netlink(r), "network_endpoint">>,
  <<InternetIo(r), "data_transfer">>,
  <<Transfers(r), "data_transfer">>,
  <<Interferes(r) /\ SignalZero(r), "none">>,
  <<Interferes(r), "escape_or_interference">>,
  <<r.sys = "io_uring_setup" /\ r.outcome = "failed",
    "failed_capability_probe">>,
  <<r.sys \in OpaqueIo, "opaque_io">>,
  <<Maps(r) /\ r.note.place = "inside", "alternate_file_access">>,
  <<TRUE, "none">> >>

GapCategory(r) ==
  LET rules == GapRules(r)
      first == CHOOSE i \in DOMAIN rules :
                 rules[i][1] /\ \A j \in 1..(i - 1) : ~rules[j][1]
  IN rules[first][2]

(* classifyPolicyRelevantTraceGaps() over the records of an experiment.    *)
GapsOf(records) ==
  {[line |-> i, category |-> GapCategory(records[i])] :
     i \in {j \in DOMAIN records : GapCategory(records[j]) # "none"}}

-----------------------------------------------------------------------------
(* mapProcesses(): a thread's records belong to the process that made it.  *)
StartsThread(r) == r.sys \in Forks /\ Succeeded(r) /\ "CLONE_THREAD" \in r.flags
StartsProcess(r) ==
  r.sys \in Forks /\ Succeeded(r) /\ "CLONE_THREAD" \notin r.flags

OwnerAfter(owner, r) ==
  IF StartsThread(r) THEN [owner EXCEPT ![r.target] = owner[r.pid]]
  ELSE IF StartsProcess(r) THEN [owner EXCEPT ![r.target] = r.target]
  ELSE owner

OwnersOf(records, pids) ==
  FoldLeft(OwnerAfter, [p \in pids |-> p], records)

(* Events: process.start of a child at its clone, and of a root at its     *)
(* first record.                                                           *)
StartEvent(i, process, parent) ==
  [line |-> i, kind |-> "process.start", process |-> process,
   at |-> parent, place |-> "none", outcome |-> "succeeded"]

ChildStarts(records, owner) ==
  {StartEvent(i, records[i].target, owner[records[i].pid]) :
     i \in {j \in DOMAIN records : StartsProcess(records[j])}}

RootStarts(records, owner) ==
  LET owners == {owner[records[i].pid] : i \in DOMAIN records}
      children == {e.process : e \in ChildStarts(records, owner)}
      First(p) == CHOOSE i \in DOMAIN records :
                    /\ owner[records[i].pid] = p
                    /\ \A j \in 1..(i - 1) : owner[records[j].pid] # p
  IN {StartEvent(First(p), p, 0) : p \in owners \ children}

-----------------------------------------------------------------------------
(* Effects.                                                                *)
None == [kind |-> "none", place |-> "none", at |-> 0]
FileEffect(kind, place) == [None EXCEPT !.kind = kind, !.place = place]

(* The effect that states a path, when the path is known.                  *)
FileEffects(kind, places) == {FileEffect(kind, place) : place \in places}

ExecEffects(r) ==
  IF r.sys \in {"execve", "execveat"} /\ ~ArgsTruncated(r)
  THEN FileEffects("process.exec", PathOf(r)) ELSE {}

ReadOrWrite == [read |-> "file.read", write |-> "file.write",
                getdents |-> "file.read"]

FileEffectsOf(r) ==
  CASE r.sys \in Opens ->
         FileEffects(IF TruncatingOpen(r) THEN "file.write" ELSE "file.open",
                     IF Succeeded(r) THEN {r.where} ELSE PathOf(r))
    [] r.sys \in DOMAIN ReadOrWrite /\ r.note.family = "file"
         /\ (Succeeded(r) => r.moved) ->
         FileEffects(ReadOrWrite[r.sys], {r.note.place})
    [] r.sys \in {"unlink", "unlinkat"} -> FileEffects("file.delete", PathOf(r))
    [] OTHER -> {}

(* Network descriptors: what each process last bound to each descriptor    *)
(* number, a table a child shares or copies.                               *)
Unbound == [at |-> 0, note |-> NoNote]

(* Mutant: a child is taken to share its parent's descriptors.             *)
ForkShares(state, r) == [state EXCEPT !.of[r.target] = state.of[r.pid]]

ForkTable(state, r) ==
  IF "CLONE_FILES" \in r.flags
  THEN [state EXCEPT !.of[r.target] = state.of[r.pid]]
  ELSE [of |-> [state.of EXCEPT ![r.target] = Len(state.tables) + 1],
        tables |-> Append(state.tables, state.tables[state.of[r.pid]])]

(* CLOSE_RANGE_UNSHARE detaches the caller's table, CLOSE_RANGE_CLOEXEC    *)
(* closes nothing yet.                                                     *)
CloseRange(state, r, closed) ==
  LET own == IF "UNSHARE" \in r.flags
             THEN [of |-> [state.of EXCEPT ![r.pid] = Len(state.tables) + 1],
                   tables |-> Append(state.tables,
                                     state.tables[state.of[r.pid]])]
             ELSE state
  IN IF "CLOEXEC" \in r.flags THEN own
     ELSE [own EXCEPT !.tables[own.of[r.pid]] = closed]

SetEntry(state, r, fd, entry) ==
  [state EXCEPT !.tables[state.of[r.pid]][fd] = entry]

Entry(state, r, fd) == state.tables[state.of[r.pid]][fd]

(* maintainNetworkDescriptorState(); a call whose outcome is not known     *)
(* drops what it may have closed.                                          *)
Maintain(state, r, closed) ==
  CASE r.sys \in Forks /\ Succeeded(r) -> ForkTable(state, r)
    [] r.sys = "close" -> SetEntry(state, r, r.fd, Unbound)
    [] r.sys = "close_range" /\ r.outcome # "failed" ->
         CloseRange(state, r, closed)
    [] r.sys = "dup2" /\ Succeeded(r) ->
         SetEntry(state, r, r.target, Entry(state, r, r.fd))
    [] r.sys = "dup2" /\ Unclear(r) -> SetEntry(state, r, r.target, Unbound)
    [] r.sys \in {"socket", "accept"} /\ Succeeded(r) ->
         SetEntry(state, r, r.target, Unbound)
    [] OTHER -> state

(* The endpoint a listen may take from the bind it follows: the same       *)
(* annotation, or the same address and no other protocol.                  *)
Compatible(entry, note) ==
  \/ entry.note = note
  \/ entry.note.family = note.family /\ note.at # 0 /\ note.at = entry.at

FallbackAt(state, r) ==
  LET entry == Entry(state, r, r.fd)
  IN IF r.sys = "listen" /\ entry # Unbound /\ Compatible(entry, r.note)
     THEN entry.at ELSE 0

(* networkEndpoint(): the arguments, then the annotation, then the bind.   *)
EndpointAt(state, r) ==
  CASE r.at # 0 -> r.at
    [] r.at = 0 /\ r.note.at # 0 -> r.note.at
    [] OTHER -> FallbackAt(state, r)

RecordBind(state, r) ==
  IF r.sys = "bind" /\ Succeeded(r) /\ ~Netlink(r)
  THEN SetEntry(state, r, r.fd, [at |-> EndpointAt(state, r), note |-> r.note])
  ELSE state

NetworkEffects(state, r) ==
  LET effect(kind) == {[None EXCEPT !.kind = kind, !.at = EndpointAt(state, r)]}
  IN CASE Netlink(r) -> {}
       [] r.sys = "connect" -> effect("network.connect_attempt")
       [] r.sys = "listen" -> effect("network.listen")
       [] r.sys = "bind" /\ Succeeded(r) /\ r.note.family = "udp" ->
            effect("network.listen")
       [] OTHER -> {}

ExitEffects(r, owner) ==
  IF r.sys \in {"exit_group", "killed"} /\ owner[r.pid] = r.pid
  THEN {[None EXCEPT !.kind = "process.exit"]} ELSE {}

(* One effect per record at most, and none whose outcome is not known.     *)
EffectsOf(state, r, owner) ==
  (IF Unclear(r) /\ r.sys \notin {"exit_group", "killed"} THEN {}
   ELSE ExecEffects(r) \union NetworkEffects(state, r) \union FileEffectsOf(r))
  \union ExitEffects(r, owner)

(* The loop of normalizeExperiment() over the records in time order.       *)
NormalizeRecord(pass, r, owner, closed) ==
  LET state == Maintain(pass.state, r, closed)
      line == pass.line + 1
  IN [line |-> line, state |-> RecordBind(state, r),
      events |-> pass.events \union
        {[line |-> line, kind |-> e.kind, process |-> owner[r.pid],
          at |-> e.at, place |-> e.place, outcome |-> r.outcome] :
           e \in EffectsOf(state, r, owner)}]

EventsOf(records, pids, fds) ==
  LET owner == OwnersOf(records, pids)
      (* A process the trace has no clone of begins with a table of its own. *)
      closed == [fd \in fds |-> Unbound]
      start == [line |-> 0, events |-> {},
                state |-> [of |-> [p \in pids |-> p],
                          tables |-> [p \in pids |-> closed]]]
  IN FoldLeft(LAMBDA pass, r : NormalizeRecord(pass, r, owner, closed),
              start, records).events
     \union ChildStarts(records, owner) \union RootStarts(records, owner)
=============================================================================

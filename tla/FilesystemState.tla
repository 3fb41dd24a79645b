---------------------------- MODULE FilesystemState ---------------------------
(***************************************************************************)
(* src/src/observe/filesystem-state.ts: the profile of an experiment (its  *)
(* home and its workspace) is walked before and after, under limits on     *)
(* entries, visits, depth, directory size, bytes hashed, issues and time;  *)
(* the two snapshots are compared, and both are stored with the delta.     *)
(*                                                                         *)
(* A tree is a function from positions: <<1>> is home, <<2>> workspace,    *)
(* <<1, 2>> the second name in home.  An object is [kind, mode, size,      *)
(* content]: kind is "directory", "file", "symlink" or "special"; size is  *)
(* the length of a link's target, and content what a hash or the target    *)
(* would tell.  An issue is the position at which an operation failed      *)
(* (there is at most one at each).                                         *)
(***************************************************************************)
EXTENDS Naturals, Sequences, FiniteSets

CONSTANTS
  Profiles,     (* the pairs of trees, before and after the experiment       *)
  CaptureLimits (* the settings of the limits                                *)

ASSUME CaptureLimitsAssumption ==
  \A l \in CaptureLimits :
    /\ l.maxEntries \in Nat \ {0, 1} /\ l.maxVisitedEntries \in Nat \ {0, 1}
    /\ {l.maxDepth, l.maxTotalHashBytes} \subseteq Nat
    /\ {l.maxDirectoryEntries, l.maxHashBytes, l.maxSymlinkTargetBytes,
        l.maxIssues} \subseteq Nat \ {0}

(* What is in a tree is in a directory of it, up to one of the roots.      *)
IsTree(tree) ==
  /\ {<<1>>, <<2>>} \subseteq DOMAIN tree
  /\ \A p \in DOMAIN tree :
       /\ p \in Seq(Nat) /\ p # <<>> /\ p[1] \in {1, 2}
       /\ \A m \in 1..(Len(p) - 1) :
            /\ SubSeq(p, 1, m) \in DOMAIN tree
            /\ tree[SubSeq(p, 1, m)].kind = "directory"
       /\ tree[p].kind \in {"directory", "file", "symlink", "special"}
       /\ tree[p].size \in Nat

ASSUME ProfilesAssumption ==
  \A profile \in Profiles : \A n \in 1..2 : IsTree(profile[n])

VARIABLES
  trees,        (* the trees of the two captures                             *)
  limits,
  roots,        (* the roots still to be captured                            *)
  walk,         (* the directories entered: [at, listed, rest]               *)
  context,      (* the capture so far                                        *)
  snapshots,    (* the snapshots taken                                       *)
  difference,   (* {} or {the delta}                                         *)
  stored        (* the artifacts written                                     *)

stateVars == <<trees, limits, roots, walk, context, snapshots, difference, stored>>

NothingRetained == [p \in {} |-> {}]

FreshContext ==
  [entries |-> NothingRetained, issues |-> {}, truncations |-> {},
   visited |-> 0, hashBytes |-> 0, stopped |-> FALSE]

CaptureInit ==
  /\ trees \in Profiles /\ limits \in CaptureLimits
  /\ roots = <<1, 2>> /\ walk = <<>> /\ context = FreshContext
  /\ snapshots = <<>> /\ difference = {} /\ stored = {}

Capturing == Len(snapshots) < 2
Tree == trees[Len(snapshots) + 1]

-----------------------------------------------------------------------------
(* recordTruncation().                                                     *)
Truncated(c, position, reason) ==
  [c EXCEPT !.truncations = @ \union {<<position, reason>>}]

Stopped(c, position, reason) ==
  [Truncated(c, position, reason) EXCEPT !.stopped = TRUE]

(* withinElapsedLimit(): the clock may be found past the budget.           *)
Late(c, position) == Stopped(c, position, "elapsed_time_limit")
Timed(c, position) == {c, Late(c, position)}

(* Mutant: an issue beyond the budget is dropped.                          *)
DropsIssue(c, position) ==
  IF Cardinality(c.issues) < limits.maxIssues
  THEN [c EXCEPT !.issues = @ \union {position}] ELSE c

(* recordIssue().                                                          *)
RecordIssue(c, position) ==
  IF Cardinality(c.issues) < limits.maxIssues
  THEN [c EXCEPT !.issues = @ \union {position}]
  ELSE Stopped(c, position, "issue_limit")

(* reserveVisit(): the contexts it may leave, stopped when it refuses.     *)
ReserveVisit(c, position) ==
  {Late(c, position)} \union
  {IF c.visited >= limits.maxVisitedEntries
   THEN Stopped(c, position, "visited_entry_limit")
   ELSE [c EXCEPT !.visited = @ + 1]}

Captured(object, status) ==
  CASE object.kind = "directory" ->
         [kind |-> "directory", mode |-> object.mode, size |-> 0,
          status |-> "recorded", content |-> {}]
    [] object.kind = "symlink" ->
         [kind |-> "symlink", mode |-> 0, size |-> 0, status |-> status,
          content |-> IF status = "recorded" THEN {object.content} ELSE {}]
    [] object.kind = "file" ->
         [kind |-> "file", mode |-> object.mode, size |-> object.size,
          status |-> status,
          content |-> IF status = "hashed" THEN {object.content} ELSE {}]

(* The ways a file's content is captured, after the first look at the      *)
(* clock: hashed, cut off by the clock, unreadable or changed meanwhile.   *)
FileOutcomes(c, position, file) ==
  IF file.size > limits.maxHashBytes THEN {<<c, "omitted_size_limit">>}
  ELSE IF file.size + c.hashBytes > limits.maxTotalHashBytes
  THEN {<<Truncated(c, position, "total_hash_byte_limit"),
          "omitted_total_hash_byte_limit">>}
  ELSE LET Consumed(n) == [c EXCEPT !.hashBytes = @ + n]
       IN  {<<Consumed(file.size), "hashed">>,
            <<Late(c, position), "omitted_elapsed_time_limit">>}
           \union
           UNION {{<<d, "unavailable">> :
                     d \in Timed(RecordIssue(Consumed(n), position), position)} :
                  n \in {0, file.size}}

LinkOutcomes(c, position, link) ==
  LET failed == RecordIssue(c, position)
  IN  {<<c, IF link.size <= limits.maxSymlinkTargetBytes
            THEN "recorded" ELSE "omitted_size_limit">>,
       <<failed, "unavailable">>,
       <<Late(c, position), "omitted_elapsed_time_limit">>,
       <<Late(failed, position), "omitted_elapsed_time_limit">>}

(* inspectEntry(): what lstat() says, or that it fails; a special object   *)
(* is not an entry.                                                        *)
Inspected(c, position) ==
  LET object == Tree[position]
      Retained(outcomes) == {<<o[1], {Captured(object, o[2])}>> : o \in outcomes}
      late == {<<Late(c, position), "omitted_elapsed_time_limit">>}
      found ==
        CASE object.kind = "directory" ->
               Retained(Timed(c, position) \X {"recorded"})
          [] object.kind = "special" -> Timed(c, position) \X {{}}
          [] object.kind = "file" ->
               Retained(late \union FileOutcomes(c, position, object))
          [] object.kind = "symlink" ->
               Retained(late \union LinkOutcomes(c, position, object))
  IN  found \union (Timed(RecordIssue(c, position), position) \X {{}})

(* An entry is kept also when the capture stops at it.                     *)
Keep(outcome, position) ==
  IF outcome[2] = {} THEN outcome[1]
  ELSE [outcome[1] EXCEPT !.entries =
          [p \in DOMAIN @ \union {position} |->
             IF p = position THEN CHOOSE e \in outcome[2] : TRUE ELSE @[p]]]

IsDirectory(outcome) == \E e \in outcome[2] : e.kind = "directory"

Entered(position) == [at |-> position, listed |-> FALSE, rest |-> {}]

-----------------------------------------------------------------------------
(* Both roots are captured before anything below them.                     *)
CaptureRoot ==
  /\ Capturing /\ roots # <<>> /\ ~context.stopped
  /\ LET position == <<Head(roots)>>
     IN  \E c \in ReserveVisit(context, position) :
           IF c.stopped THEN context' = c /\ walk' = walk
           ELSE \E outcome \in Inspected(c, position) :
                  /\ context' = Keep(outcome, position)
                  /\ walk' = IF IsDirectory(outcome)
                             THEN <<Entered(position)>> \o walk ELSE walk
  /\ roots' = Tail(roots)
  /\ UNCHANGED <<trees, limits, snapshots, difference, stored>>

Walking == Capturing /\ roots = <<>> /\ ~context.stopped /\ walk # <<>>
Top == walk[Len(walk)]
Left == SubSeq(walk, 1, Len(walk) - 1)

Names(position) ==
  {p[Len(p)] : p \in {q \in DOMAIN Tree :
     Len(q) = Len(position) + 1 /\ SubSeq(q, 1, Len(position)) = position}}

(* boundedDirectoryNames() and the limits checked before the loop: the     *)
(* directory cannot be read, is too large, or lies too deep.               *)
ListDirectory ==
  /\ Walking /\ ~Top.listed
  /\ LET position == Top.at
         names == Names(position)
         large == Cardinality(names) > limits.maxDirectoryEntries
         deep == Len(position) > limits.maxDepth /\ names # {}
     IN  \/ /\ context' \in
                 Timed(RecordIssue(context, position), position)
                 \union {Late(context, position)}
            /\ walk' = Left
         \/ /\ large \/ deep
            /\ context' = Truncated(context, position,
                 IF large THEN "directory_entry_limit" ELSE "depth_limit")
            /\ walk' = Left
         \/ /\ ~large /\ ~deep
            /\ walk' = Append(Left,
                 [at |-> position, listed |-> TRUE, rest |-> names])
            /\ UNCHANGED context
  /\ UNCHANGED <<trees, limits, roots, snapshots, difference, stored>>

(* One turn of walkDirectory()'s loop.                                     *)
InspectChild ==
  /\ Walking /\ Top.listed /\ Top.rest # {}
  /\ IF Cardinality(DOMAIN context.entries) >= limits.maxEntries
     THEN context' = Stopped(context, Top.at, "entry_limit") /\ walk' = walk
     ELSE LET name == CHOOSE i \in Top.rest : \A j \in Top.rest : i <= j
              position == Append(Top.at, name)
              remaining == Append(Left, [Top EXCEPT !.rest = @ \ {name}])
          IN  \E c \in ReserveVisit(context, position) :
                IF c.stopped THEN context' = c /\ walk' = walk
                ELSE \E outcome \in Inspected(c, position) :
                       /\ context' = Keep(outcome, position)
                       /\ walk' = IF IsDirectory(outcome)
                                  THEN Append(remaining, Entered(position))
                                  ELSE remaining
  /\ UNCHANGED <<trees, limits, roots, snapshots, difference, stored>>

LeaveDirectory ==
  /\ Walking /\ Top.listed /\ Top.rest = {}
  /\ walk' = Left
  /\ UNCHANGED <<trees, limits, roots, context, snapshots, difference, stored>>

(* The end of captureFilesystemState().                                    *)
TakeSnapshot ==
  /\ Capturing
  /\ context.stopped \/ (roots = <<>> /\ walk = <<>>)
  /\ snapshots' = Append(snapshots,
       [entries |-> context.entries, issues |-> context.issues,
        truncations |-> context.truncations,
        complete |-> context.issues = {} /\ context.truncations = {}])
  /\ context' = FreshContext /\ roots' = <<1, 2>> /\ walk' = <<>>
  /\ UNCHANGED <<trees, limits, difference, stored>>

-----------------------------------------------------------------------------
(* changedAttributes() of two entries of one kind.                         *)
ChangedAttributes(a, b) ==
  {x \in {"mode", "size", "status"} : a[x] # b[x]} \union
  {x \in {"content"} : a.status = b.status /\ a.content # b.content}

(* diffFilesystemState().                                                  *)
Diff(a, b) ==
  LET both == DOMAIN a.entries \intersect DOMAIN b.entries
      sameKind == {p \in both : a.entries[p].kind = b.entries[p].kind}
  IN  [created |-> DOMAIN b.entries \ DOMAIN a.entries,
       deleted |-> DOMAIN a.entries \ DOMAIN b.entries,
       typeChanged |-> both \ sameKind,
       modified |-> {p \in sameKind :
                       ChangedAttributes(a.entries[p], b.entries[p]) # {}},
       before |-> a.complete, after |-> b.complete]

CompareSnapshots ==
  /\ Len(snapshots) = 2 /\ difference = {}
  /\ difference' = {Diff(snapshots[1], snapshots[2])}
  /\ UNCHANGED <<trees, limits, roots, walk, context, snapshots, stored>>

(* persistFilesystemStateEvidence(): in this order; it may stop anywhere.  *)
Artifacts == <<"before", "after", "delta">>

Persist(n) ==
  /\ difference # {}
  /\ stored = {Artifacts[i] : i \in 1..(n - 1)}
  /\ stored' = stored \union {Artifacts[n]}
  /\ UNCHANGED <<trees, limits, roots, walk, context, snapshots, difference>>

CaptureNext ==
  \/ CaptureRoot \/ ListDirectory \/ InspectChild \/ LeaveDirectory
  \/ TakeSnapshot \/ CompareSnapshots \/ \E n \in 1..3 : Persist(n)

CaptureSpec == CaptureInit /\ [][CaptureNext]_stateVars

-----------------------------------------------------------------------------
Visible(tree) == {p \in DOMAIN tree : tree[p].kind # "special"}

IsAtOrAbove(q, p) == Len(q) <= Len(p) /\ SubSeq(p, 1, Len(q)) = q

(* The order of the walk; the roots come before everything.                *)
NotBefore(p, q) ==
  \/ Len(q) = 1
  \/ IsAtOrAbove(q, p)
  \/ \E n \in (DOMAIN p) \intersect (DOMAIN q) :
       p[n] > q[n] /\ SubSeq(p, 1, n - 1) = SubSeq(q, 1, n - 1)

(* What a snapshot says about an object that it does not retain, or about  *)
(* the content of one that it does.                                        *)
Explained(s, p) ==
  \/ \E q \in s.issues : IsAtOrAbove(q, p)
  \/ \E t \in s.truncations :
       IF t[2] \in {"depth_limit", "directory_entry_limit"}
       THEN IsAtOrAbove(t[1], p)
       ELSE IF t[2] = "total_hash_byte_limit" THEN t[1] = p
       ELSE NotBefore(p, t[1])

(* All that can be told of an object, and an entry that tells less of its  *)
(* content.                                                                *)
InFull(object) ==
  Captured(object, IF object.kind = "file" THEN "hashed" ELSE "recorded")

InPart(e, whole) ==
  /\ [e EXCEPT !.status = whole.status, !.content = whole.content] = whole
  /\ e.content = {}

TooLarge(object) ==
  \/ object.kind = "file" /\ object.size > limits.maxHashBytes
  \/ object.kind = "symlink" /\ object.size > limits.maxSymlinkTargetBytes

(* An entry is true, and where it tells less, s says why.                  *)
Faithful(s, p, object, e) ==
  /\ e.kind = object.kind
  /\ \/ e = InFull(object) /\ ~TooLarge(object)
     \/ /\ InPart(e, InFull(object))
        /\ IF e.status = "omitted_size_limit" THEN TooLarge(object)
           ELSE Explained(s, p)

(* A snapshot accounts for its tree: each object is retained, or an issue  *)
(* or a truncation says why not; and what is retained is true.             *)
SnapshotHonest(s, tree) ==
  /\ DOMAIN s.entries \subseteq Visible(tree)
  /\ \A p \in Visible(tree) \ DOMAIN s.entries : Explained(s, p)
  /\ \A p \in DOMAIN s.entries : Faithful(s, p, tree[p], s.entries[p])
  /\ Cardinality(DOMAIN s.entries) <= limits.maxEntries
  /\ Cardinality(s.issues) <= limits.maxIssues

(* Whether objects of a kind differ in what a complete snapshot retains.   *)
Differs(a, b) ==
  \/ a.kind # "symlink" /\ a.mode # b.mode
  \/ a.kind = "file" /\ a.size # b.size
  \/ /\ a.kind # "directory" /\ a.content # b.content
     /\ ~TooLarge(a) /\ ~TooLarge(b)
  \/ a.kind = "symlink" /\ ~(TooLarge(a) <=> TooLarge(b))

(* Whatever limit is met and whatever fails, a "complete" delta is the     *)
(* difference of the two trees: nothing was left out of it, and nothing in *)
(* it is an artefact of the capture.  If only one snapshot is complete,    *)
(* what it says is absent was absent.                                      *)
DeltaSound ==
  /\ \A n \in DOMAIN snapshots : SnapshotHonest(snapshots[n], trees[n])
  /\ \A d \in difference :
       LET a == Visible(trees[1])
           b == Visible(trees[2])
           same == {p \in a \intersect b : trees[1][p].kind = trees[2][p].kind}
       IN  /\ d.before => d.created \subseteq b \ a
           /\ d.after => d.deleted \subseteq a \ b
           /\ d.before /\ d.after =>
                /\ d.created = b \ a /\ d.deleted = a \ b
                /\ d.typeChanged = (a \intersect b) \ same
                /\ d.modified = {p \in same : Differs(trees[1][p], trees[2][p])}
  /\ "delta" \in stored => {"before", "after"} \subseteq stored

=============================================================================

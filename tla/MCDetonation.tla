----------------------------- MODULE MCDetonation ----------------------------
(***************************************************************************)
(* What an experiment observes on the host's side of the container: the    *)
(* recorded session, that of an agent trial, the claims of the interface   *)
(* the server lists, and the profile before and after.  One of the four is *)
(* followed in a behaviour; the initial choices of the others are fixed.   *)
(***************************************************************************)
EXTENDS MCRecordingTransport, AgentSession, InterfaceClaims, FilesystemState

VARIABLE subject   (* "session", "agent", "claims" or "profile"              *)

MCvars == <<vars, sessionVars, claimVars, stateVars, subject>>

-----------------------------------------------------------------------------
(* The agent's session: catalogs within the limits and beyond each.        *)
MCListed(name, size) == [name |-> name, size |-> size]
MCCatalogs ==
  {<<MCListed("read", 1)>>, <<MCListed("read", 2)>>,
   <<MCListed("read", 1), MCListed("read", 1)>>,
   <<MCListed("read", 1), MCListed("write", 1), MCListed("list", 1)>>}

-----------------------------------------------------------------------------
(* Interface claims: trees of one or two levels below the root.            *)
MCText(length, claims) == [length |-> length, claims |-> claims]
MCSilent == MCText(1, <<>>)
MCAffirms == MCText(2, [fs |-> 2])
MCAffirmsBoth == MCText(3, [fs |-> 1, net |-> 3])
MCNode(type, text, key, structural, ignored) ==
  [kind |-> type, text |-> text, key |-> key, structural |-> structural,
   ignored |-> ignored]
MCLeaves ==
  {MCNode("string", MCAffirms, MCSilent, FALSE, FALSE),
   MCNode("string", MCAffirmsBoth, MCSilent, FALSE, FALSE),
   MCNode("string", MCAffirms, MCSilent, TRUE, TRUE),
   MCNode("string", MCAffirms, MCText(2, [net |-> 1]), FALSE, FALSE),
   MCNode("string", MCAffirms, MCText(4, [fs |-> 1]), FALSE, FALSE),
   MCNode("scalar", MCSilent, MCAffirmsBoth, FALSE, FALSE)}
MCContainers ==
  {MCNode(type, MCSilent, MCAffirms, structural, structural) :
     type \in {"object", "array"}, structural \in BOOLEAN}
MCRoot == <<>> :> MCNode("object", MCSilent, MCSilent, TRUE, FALSE)
MCTrees ==
  {MCRoot @@ (<<1>> :> a) @@ (<<2>> :> b) : a \in MCLeaves, b \in MCLeaves}
  \union
  {MCRoot @@ (<<1>> :> n) @@ (<<1, 1>> :> a) @@ (<<1, 2>> :> b) @@ (<<2>> :> c) :
     n \in MCContainers, a \in MCLeaves, b \in MCLeaves, c \in MCLeaves}
  \union
  {MCRoot @@ (<<1>> :> a) @@ (<<2>> :> n) @@ (<<2, 1>> :> b) @@ (<<2, 2>> :> c) :
     n \in MCContainers, a \in MCLeaves, b \in MCLeaves, c \in MCLeaves}
  \union
  {MCRoot @@ (<<1>> :> n) @@ (<<1, 1>> :> m) @@ (<<1, 1, 1>> :> a)
      @@ (<<1, 2>> :> b) :
     n \in MCContainers, m \in MCContainers, a \in MCLeaves, b \in MCLeaves}
MCHints == [object |-> TRUE, values |-> [readOnly |-> "boolean", open |-> "other"]]
MCTool(tree) ==
  [fields |-> <<MCText(3, [net |-> 3])>>, annotations |-> MCHints,
   schema |-> tree]
MCBare == <<MCTool(MCRoot)>>
MCInterfaces ==
  {MCBare} \union {<<MCTool(t)>> : t \in MCTrees} \union
  {<<[fields |-> <<MCAffirms, MCAffirmsBoth>>, schema |-> MCRoot,
       annotations |-> [object |-> FALSE, values |-> <<>>]],
     MCTool(MCRoot), MCTool(MCRoot @@ (<<1>> :> a))>> : a \in MCLeaves}

-----------------------------------------------------------------------------
(* Filesystem state: one object changes, is created or deleted.            *)
Object(type, mode, size, content) ==
  [kind |-> type, mode |-> mode, size |-> size, content |-> content]
Directory == Object("directory", 1, 0, 0)
Small == Object("file", 1, 1, "a")
Large == Object("file", 1, 3, "a")
Link == Object("symlink", 0, 1, "a")
MCObjects ==
  {Directory, Small, [Small EXCEPT !.content = "b"], [Small EXCEPT !.mode = 0],
   Large, Link, Object("symlink", 0, 2, "b"), Object("special", 0, 0, 0)}
MCBefore ==
  (<<1>> :> Directory) @@ (<<2>> :> Directory) @@ (<<1, 1>> :> Directory)
    @@ (<<1, 1, 1>> :> Small) @@ (<<1, 2>> :> Small) @@ (<<2, 1>> :> Link)
Without(tree, p) == [q \in DOMAIN tree \ {p} |-> tree[q]]
MCProfiles ==
  {<<MCBefore, Without(MCBefore, p)>> : p \in {<<1, 1, 1>>, <<1, 2>>, <<2, 1>>}}
  \union
  {<<MCBefore, (<<1, 2>> :> o) @@ MCBefore>> : o \in MCObjects}
  \union
  {<<MCBefore, (<<2, 2>> :> o) @@ MCBefore>> :
     o \in {Small, Large, Link, Object("special", 0, 0, 0)}}
  \union
  {<<MCBefore, (<<2, 1>> :> [Link EXCEPT !.content = "b"]) @@ MCBefore>>,
   <<(<<1, 2>> :> Large) @@ MCBefore,
     (<<1, 2>> :> [Large EXCEPT !.content = "b"]) @@ MCBefore>>}
MCGrown == <<MCBefore, (<<2, 2>> :> Small) @@ MCBefore>>

MCAmple ==
  [maxEntries |-> 9, maxVisitedEntries |-> 9, maxDepth |-> 2,
   maxDirectoryEntries |-> 3, maxHashBytes |-> 2, maxTotalHashBytes |-> 9,
   maxSymlinkTargetBytes |-> 1, maxIssues |-> 1]
MCCaptureLimits ==
  {MCAmple, [MCAmple EXCEPT !.maxEntries = 4],
   [MCAmple EXCEPT !.maxVisitedEntries = 5], [MCAmple EXCEPT !.maxDepth = 1],
   [MCAmple EXCEPT !.maxDirectoryEntries = 1],
   [MCAmple EXCEPT !.maxTotalHashBytes = 1], [MCAmple EXCEPT !.maxIssues = 2]}

-----------------------------------------------------------------------------
(* Only the ample limits are tried with every profile.                     *)
MCInit ==
  /\ subject \in {"session", "agent", "claims", "profile"}
  /\ Init
  /\ SessionInit
  /\ ClaimsInit /\ (subject # "claims" => tools = MCBare)
  /\ CaptureInit
  /\ IF subject = "profile" THEN limits # MCAmple => trees = MCGrown
     ELSE limits = MCAmple /\ trees = MCGrown

Session(A) ==
  /\ subject = "session" /\ A
  /\ UNCHANGED <<sessionVars, claimVars, stateVars, subject>>

(* Only the first message is a large one, unless the limit refuses it; the *)
(* server speaks once spoken to, and writes to stderr during a call.       *)
Agent ==
  /\ subject = "agent" /\ SessionNext
  /\ \A n \in DOMAIN log' :
       (n > 1 => log'[n].size = 1) /\ (log'[n].from = "server" => handed # <<>>)
  /\ stderrVars' # stderrVars => phase.kind = "tool"
  /\ UNCHANGED <<vars, claimVars, stateVars, subject>>

Scans ==
  /\ subject = "claims" /\ ClaimsNext
  /\ UNCHANGED <<vars, sessionVars, stateVars, subject>>

(* What a snapshot and a delta claim of an incomplete capture concerns     *)
(* that capture only: after one, the other is taken without failures.      *)
Captures ==
  /\ subject = "profile" /\ CaptureNext
  /\ \A s \in ToSet(snapshots) : ~s.complete =>
       /\ context'.issues = {}
       /\ \A t \in context'.truncations : t[2] # "elapsed_time_limit"
  /\ UNCHANGED <<vars, sessionVars, claimVars, subject>>

MCNext == Session(Next) \/ Agent \/ Scans \/ Captures

(* The transport's fairness; of the others only safety is asked.           *)
MCSpec == MCInit /\ [][MCNext]_MCvars /\ Fairness

=============================================================================

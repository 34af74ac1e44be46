--------------------------- MODULE ResourceClaims ---------------------------
(***************************************************************************)
(* The resource claims that the dag-v2 scheduler plans with                *)
(* (packages/agent/src/tool-resource-claims.ts and                         *)
(* builtin-tool-resource-claims.ts).                                       *)
(*                                                                         *)
(* A path is what the resource-key resolver makes of it: the sequence of   *)
(* its segments after lexical canonicalisation (key), the same after       *)
(* symbolic links (realKey, equal to key when the resolver reports none)   *)
(* and its inode (NoInode when the resolver reports none).  A path that    *)
(* cannot be resolved is NullPath.  A claim on a session, terminal,        *)
(* network or global resource carries a key only.                          *)
(***************************************************************************)
EXTENDS Sequences, SequencesExt

NoInode == "no inode"
NullPath == [key |-> <<>>, realKey |-> <<>>, inode |-> "unresolvable"]

Exclusive == [kind |-> "exclusive", claims |-> {}]
Claims(S) == [kind |-> "claims", claims |-> S]

(***************************************************************************)
(* Two paths overlap when one is the other or an ancestor of it.           *)
(***************************************************************************)
pathSegmentsOverlap(p, q) == IsPrefix(p, q) \/ IsPrefix(q, p)

pathClaimKeys(c) == {c.key, c.realKey}

pathClaimsOverlap(l, r) ==
  \/ l.inode # NoInode /\ l.inode = r.inode
  \/ \E p \in pathClaimKeys(l), q \in pathClaimKeys(r) : pathSegmentsOverlap(p, q)

claimsConflict(l, r) ==
  \/ l.access = "exclusive" \/ r.access = "exclusive"
  \/ /\ l.kind = r.kind
     /\ IF l.kind = "path" THEN pathClaimsOverlap(l, r) ELSE l.key = r.key
     /\ ~(l.access = "read" /\ r.access = "read")

resolutionsConflict(l, r) ==
  \/ l.kind = "exclusive" \/ r.kind = "exclusive"
  \/ \E c \in l.claims, d \in r.claims : claimsConflict(c, d)

-----------------------------------------------------------------------------
(***************************************************************************)
(* Which claims a call is planned with.  A call names its tool, and tells  *)
(* whether its arguments are a plain object, the path among them, the      *)
(* tool's executionMode ("none" when it has none) and what the tool's own  *)
(* resourceClaims callback answers: "undeclared" when the tool has no      *)
(* callback, "throws" when it rejects, otherwise a set of raw claims (the  *)
(* word "exclusive" and an empty or non-array answer are the empty set).   *)
(***************************************************************************)
PATH_SCOPED_TOOLS == {"read", "write", "edit"}
SEARCH_PATH_TOOLS == {"grep", "find", "ls", "search_files"}
PARALLEL_SAFE_TOOLS ==
  {"grep", "find", "ls", "read", "search_files", "session_search", "skill_view",
   "skills_list", "vision_analyze", "web_extract", "web_search"}
NEVER_PARALLEL_TOOLS == {"clarify"}
NonPathKinds == {"session", "terminal", "network", "global"}

(* resolvePathClaimWithIdentity: an unresolvable path isolates the call. *)
resolvePathClaim(path, access) ==
  IF path = NullPath THEN Exclusive
  ELSE Claims({[kind |-> "path", key |-> path.key, realKey |-> path.realKey,
                inode |-> path.inode, access |-> access]})

builtinPathAccess(name) ==
  IF name = "read" \/ name \in SEARCH_PATH_TOOLS THEN "read" ELSE "write"

isSequentialOnly(call) ==
  call.name \in NEVER_PARALLEL_TOOLS \/ call.name = "bash" \/ call.policy = "sequential"

(* The claims of a call whose tool declares none. *)
resolveToolClaims(call, strictExtensionClaims) ==
  CASE ~call.plain \/ isSequentialOnly(call) -> Exclusive
    [] OTHER ->
       CASE call.name \in PATH_SCOPED_TOOLS \union SEARCH_PATH_TOOLS ->
              resolvePathClaim(call.path, builtinPathAccess(call.name))
         [] call.name \in PARALLEL_SAFE_TOOLS \ (PATH_SCOPED_TOOLS \union SEARCH_PATH_TOOLS) ->
              Claims({})
         [] OTHER ->
              IF call.policy = "parallel" /\ ~strictExtensionClaims
              THEN Claims({}) ELSE Exclusive

(* A raw claim the normaliser accepts: a resolvable path read or written, *)
(* or a non-path resource with one of the three accesses.                 *)
isWellFormed(raw) ==
  \/ raw.kind = "path" /\ raw.inode # NullPath.inode /\ raw.access \in {"read", "write"}
  \/ raw.kind \in NonPathKinds /\ raw.access \in {"read", "write", "exclusive"}

normalizeCustomClaims(raws) ==
  IF \/ raws = {}
     \/ \E raw \in raws : ~isWellFormed(raw) \/ raw.access = "exclusive"
  THEN Exclusive ELSE Claims(raws)

resolveToolClaimsForCall(call, strictExtensionClaims) ==
  IF call.declares = "undeclared" THEN resolveToolClaims(call, strictExtensionClaims)
  ELSE IF ~call.plain \/ call.declares = "throws" \/ isSequentialOnly(call)
  THEN Exclusive
  ELSE normalizeCustomClaims(call.raws)
=============================================================================

-------------------------------- MODULE Merge --------------------------------
(***************************************************************************)
(* The directories on the way to a page, and what merge_directives makes   *)
(* of their directive lists, level by level.                               *)
(*                                                                         *)
(* A directive is [type, name, value, kids]; name is what identifies it    *)
(* among those of its type: a header's or variable's name, a redirect's    *)
(* path or pattern, a status, the three strings of a SetEnvIf.             *)
(***************************************************************************)
EXTENDS Integers, Sequences, SequencesExt, FiniteSets

CONSTANT MAX_DIR_DEPTH

Dir(type, name, value, kids) == [type |-> type, name |-> name, value |-> value, kids |-> kids]

-----------------------------------------------------------------------------
(***************************************************************************)
(* The directories of a walk: from the document root, or from              *)
(* HTACCESS_VHROOT when that is above it, down to the target.  A path is   *)
(* the sequence of its components; a target outside the root, or one with  *)
(* a ".." below it, gives no walk, one that is too deep is cut.            *)
(***************************************************************************)
NoVhroot == <<"no vhroot">>
WalkRoot(root, vhroot) ==
    IF vhroot # NoVhroot /\ IsPrefix(vhroot, root) THEN vhroot ELSE root
WalkDirs(root, vhroot, target) ==
    LET from  == WalkRoot(root, vhroot)
        depth == Len(target) - Len(from) + 1
        cut   == IF depth > MAX_DIR_DEPTH THEN MAX_DIR_DEPTH ELSE depth
    IN  IF ~IsPrefix(from, target)
           \/ \E i \in Len(from) + 1 .. Len(from) + cut - 1 : target[i] = ".."
        THEN <<>>
        ELSE [i \in 1 .. cut |-> SubSeq(target, 1, Len(from) + i - 1)]

-----------------------------------------------------------------------------
(***************************************************************************)
(* directives_match_for_override: by the name, by the value, or one of the *)
(* type is enough; all other types accumulate.                             *)
(***************************************************************************)
NamedTypes ==
    {"Header set", "Header unset", "Header append", "Header merge", "Header add", "RequestHeader set",
     "RequestHeader unset", "php_value", "php_flag", "php_admin_value", "php_admin_flag", "SetEnv",
     "ExpiresByType", "ErrorDocument", "Redirect", "RedirectMatch", "SetEnvIf", "SetEnvIfNoCase",
     "BrowserMatch"}
Singletons ==
    {"Order", "ExpiresActive", "ExpiresDefault", "DirectoryIndex", "BruteForceProtection",
     "BruteForceAllowedAttempts", "BruteForceWindow", "BruteForceAction", "BruteForceThrottleDuration",
     "RateLimit", "SecRuleEngine", "EsiEnable", "BotChallenge", "BotChallengeTTL",
     "BotChallengeDifficulty", "BotChallengeExempt", "BotChallengeTrustedProxy", "BotChallengePage",
     "BotChallengeIf", "RewriteEngine", "RewriteBase", "AddDefaultCharset", "DefaultType", "Satisfy",
     "FallbackResource"}
MatchForOverride(a, b) ==
    /\ a.type = b.type
    /\ \/ a.type \in NamedTypes /\ a.name = b.name
       \/ a.type \in {"Allow", "Deny"} /\ a.value = b.value
       \/ a.type \in Singletons

(***************************************************************************)
(* merge_directives: a directive takes the place of the first one that it  *)
(* matches, be it of a parent or of the same file; otherwise it goes to    *)
(* the end.  The first list is copied as it is.                            *)
(***************************************************************************)
\* Mutant of MergeOne: the parent's directive stays.
MergeOneParent(list, d) ==
    IF \E i \in 1 .. Len(list) : MatchForOverride(list[i], d) THEN list ELSE Append(list, d)
MergeOne(list, d) ==
    LET at == {i \in 1 .. Len(list) : MatchForOverride(list[i], d)} IN
    IF at = {} THEN Append(list, d) ELSE [list EXCEPT ![Min(at)] = d]
Merge(parent, child) ==
    IF parent = <<>> THEN child
    ELSE LET m[i \in 0 .. Len(child)] == IF i = 0 THEN parent ELSE MergeOne(m[i - 1], child[i])
         IN  m[Len(child)]
MergeLevels(levels) ==
    LET m[i \in 0 .. Len(levels)] == IF i = 0 THEN <<>> ELSE Merge(m[i - 1], levels[i])
    IN  m[Len(levels)]
=============================================================================

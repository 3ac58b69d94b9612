------------------------------- MODULE Override -------------------------------
(***************************************************************************)
(* What htaccess_dirwalk does to the merged directives: the filter of      *)
(* AllowOverride, then flatten_ifmodule.  Both go into the children.       *)
(***************************************************************************)
EXTENDS Merge

(***************************************************************************)
(* directive_category and filter_by_allow_override: a directive stays when *)
(* all of its categories are allowed, at any depth; a RequireAny or        *)
(* RequireAll that is left empty goes.                                     *)
(***************************************************************************)
AllOverrides == {"Limit", "Auth", "FileInfo", "Indexes", "Options"}
Category(type) ==
    CASE type \in {"Order", "Allow", "Deny", "Limit", "LimitExcept"} -> {"Limit"}
      [] type \in {"AuthType", "AuthName", "AuthUserFile", "Require valid-user", "Require user",
                   "Require group", "Require all granted", "Require all denied", "Require ip",
                   "Require not ip", "Require env", "RequireAny", "RequireAll", "Satisfy"} -> {"Auth"}
      [] type \in {"AddType", "AddHandler", "SetHandler", "ForceType", "AddCharset", "AddEncoding",
                   "AddDefaultCharset", "DefaultType", "RemoveType", "RemoveHandler", "Action",
                   "Redirect", "RedirectMatch", "ErrorDocument", "FallbackResource", "RewriteEngine",
                   "RewriteBase", "RewriteCond", "RewriteRule", "RewriteOptions", "RewriteMap"}
                                       -> {"FileInfo"}
      [] type = "DirectoryIndex"       -> {"Indexes"}
      [] type = "Options"              -> {"Options", "Indexes"}
      [] type \in {"ExpiresActive", "ExpiresByType", "ExpiresDefault"} -> {"Options"}
      [] OTHER                         -> {}

RECURSIVE FilterByAllowOverride(_, _), FlattenIfModule(_)
FilterByAllowOverride(list, allowed) ==
    LET kept == SelectSeq(list, LAMBDA d : Category(d.type) \subseteq allowed)
        in   == [i \in 1 .. Len(kept) |->
                    [kept[i] EXCEPT !.kids = FilterByAllowOverride(@, allowed)]]
    IN  SelectSeq(in, LAMBDA d : ~(d.type \in {"RequireAny", "RequireAll"} /\ d.kids = <<>>))

FlattenIfModule(list) ==
    IF list = <<>> THEN <<>>
    ELSE LET d == Head(list) IN
         (IF d.type = "IfModule" THEN FlattenIfModule(d.kids)
          ELSE <<[d EXCEPT !.kids = FlattenIfModule(@)]>>) \o FlattenIfModule(Tail(list))

\* What a request is decided by.
Directives(levels, allowed) ==
    FlattenIfModule(IF allowed = AllOverrides THEN MergeLevels(levels)
                    ELSE FilterByAllowOverride(MergeLevels(levels), allowed))

-----------------------------------------------------------------------------
(***************************************************************************)
(* The reference: each level's directives as they are written, IfModules   *)
(* open, the categories that are not allowed left out.                     *)
(***************************************************************************)
RECURSIVE AsWritten(_, _)
AsWritten(list, allowed) ==
    IF list = <<>> THEN <<>>
    ELSE LET d == Head(list)
             kids == AsWritten(d.kids, allowed)
         IN  (IF d.type = "IfModule" THEN kids
              ELSE IF \/ ~(Category(d.type) \subseteq allowed)
                      \/ d.type \in {"RequireAny", "RequireAll"} /\ kids = <<>> /\ allowed # AllOverrides
                   THEN <<>>
              ELSE <<[d EXCEPT !.kids = kids]>>) \o AsWritten(Tail(list), allowed)

Overrides(d) == d.type \in NamedTypes \cup Singletons
Like(list, d) == SelectSeq(list, LAMBDA e : MatchForOverride(e, d))
Keyed(list) == SelectSeq(list, Overrides)
Accumulated(list) == SelectSeq(list, LAMBDA d : ~Overrides(d) /\ d.type \notin {"Allow", "Deny"})
\* Every directive that overrides stands at most once in a file, and outside IfModule.
Plain(list) ==
    /\ \A i, j \in 1 .. Len(list) : i # j => ~MatchForOverride(list[i], list[j])
    /\ \A i \in 1 .. Len(list) :
        list[i].type = "IfModule" => Keyed(FlattenIfModule(list[i].kids)) = <<>>
=============================================================================

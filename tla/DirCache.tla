------------------------------ MODULE DirCache ------------------------------
(***************************************************************************)
(* htaccess_dirwalk reads the .htaccess files from the root to the         *)
(* directory of a request, through a cache of parsed files that each       *)
(* worker keeps for itself (htaccess_cache.c) and looks up by the file's   *)
(* modification time, size and inode, while an administrator edits the     *)
(* files.  Every system call is a step of its own.                         *)
(*                                                                         *)
(* A content stands for the bytes of a file and for what parsing them      *)
(* gives.  The blocks of a file, which the code mixes into the inode       *)
(* number of the key, are a function of its size and left out.             *)
(***************************************************************************)
EXTENDS Integers, Sequences, FiniteSets, Server

CONSTANTS
    Files,               \* the paths of .htaccess files
    Inodes,
    Contents,
    SizeOf(_),           \* the bytes of a content
    Torn(_),             \* what the first bytes of a content parse to
    Nothing,             \* no directives: NULL
    NoInode, NoEntry,
    CACHE_MAX_ENTRIES,   \* entries of the built-in table; ls_hash has no such bound
    SizeLimit            \* htaccess_size_limit

ASSUME DirCacheAssumption ==
    /\ \A c \in Contents : SizeOf(c) \in Nat
    /\ NoInode \notin Inodes /\ Nothing \notin Contents
    /\ CACHE_MAX_ENTRIES \in Nat /\ SizeLimit \in Nat

VARIABLES
    link,    \* the inode each name leads to, or NoInode
    node,    \* node[f][j]: the inodes that have carried the name f
    cache,   \* cache[w][f]
    walk,    \* walk[w]: the walk of the request a worker serves
    seen     \* history: what reading f would have given since w's walk began
dvars == <<clock, link, node, cache, walk, seen>>

Size(f, j) == SizeOf(node[f][j].content)
KeyOf(f, j) == [mtime |-> node[f][j].mtime, size |-> Size(f, j), inode |-> j]
NoKey == [mtime |-> 0, size |-> 0, inode |-> NoInode]
KeyAt(f) == IF link[f] = NoInode THEN NoKey ELSE KeyOf(f, link[f])

\* trusted: a regular file, no symbolic link, not writable for group or others.
Reading(n) ==
    IF n.trusted /\ SizeOf(n.content) \in 1 .. SizeLimit THEN n.content ELSE Nothing
ReadingAt(f) == IF link[f] = NoInode THEN Nothing ELSE Reading(node[f][link[f]])

Idle == [pc |-> "idle", path |-> <<>>, got |-> <<>>, fd |-> NoInode, key |-> NoKey,
         size |-> 0, when |-> 0]

DiskInit ==
    /\ clock = 1
    /\ link \in [Files -> Inodes \cup {NoInode}]
    /\ node \in [Files -> [Inodes -> [content : Contents, mtime : {1}, trusted : BOOLEAN]]]
CacheInit ==
    /\ cache = [w \in Workers |-> [f \in Files |-> NoEntry]]
    /\ walk = [w \in Workers |-> Idle]
    /\ seen = [w \in Workers |-> [f \in Files |-> {}]]
WalkInit == DiskInit /\ CacheInit

-----------------------------------------------------------------------------
(***************************************************************************)
(* The administrator: a file is written in place (an editor that truncates *)
(* first writes twice), replaced by a new one with rename(), or removed.   *)
(***************************************************************************)
Noted(f, reading) == seen' = [w \in Workers |-> [seen[w] EXCEPT ![f] = @ \cup {reading}]]
New(c, trusted) == [content |-> c, mtime |-> clock, trusted |-> trusted]

Write(f, c) ==
    /\ link[f] # NoInode
    /\ LET n == New(c, node[f][link[f]].trusted) IN
        node' = [node EXCEPT ![f][link[f]] = n] /\ Noted(f, Reading(n))
    /\ UNCHANGED <<clock, link, cache, walk>>

IsOpenFile(f, j) ==
    \E w \in Workers : walk[w].pc \in {"opened", "measured"} /\ walk[w].fd = j
                       /\ walk[w].path[Len(walk[w].got) + 1] = f
Rename(f, j, c, trusted) ==
    /\ j # link[f] /\ ~IsOpenFile(f, j)
    /\ node' = [node EXCEPT ![f][j] = New(c, trusted)]
    /\ link' = [link EXCEPT ![f] = j]
    /\ Noted(f, Reading(New(c, trusted)))
    /\ UNCHANGED <<clock, cache, walk>>

Unlink(f) ==
    /\ link[f] # NoInode
    /\ link' = [link EXCEPT ![f] = NoInode]
    /\ Noted(f, Nothing)
    /\ UNCHANGED <<clock, node, cache, walk>>

WalkTick == clock' = clock + 1 /\ UNCHANGED <<link, node, cache, walk, seen>>

-----------------------------------------------------------------------------
(***************************************************************************)
(* The walk of worker w along a path.                                      *)
(***************************************************************************)
File(w) == walk[w].path[Len(walk[w].got) + 1]

StartWalk(w, path) ==
    /\ walk[w].pc = "idle"
    /\ walk' = [walk EXCEPT ![w] = [Idle EXCEPT !.path = path,
                                    !.pc = IF path = <<>> THEN "done" ELSE "stat"]]
    /\ seen' = [seen EXCEPT ![w] = [f \in Files |-> {ReadingAt(f)}]]
    /\ UNCHANGED <<clock, link, node, cache>>

\* The directives of this level are known: on to the next.
Level(w, dirs, racy) ==
    LET got == Append(walk[w].got, [dirs |-> dirs, racy |-> racy]) IN
    walk' = [walk EXCEPT ![w] = [Idle EXCEPT !.path = walk[w].path, !.got = got,
                !.pc = IF Len(got) = Len(walk[w].path) THEN "done" ELSE "stat"]]

\* htaccess_cache_get.  An entry of another key is left for put to replace.
\* Mutant of Hit: the modification time is not compared.
HitNoMtime(w, f, key) ==
    cache[w][f] # NoEntry /\ cache[w][f].key.size = key.size /\ cache[w][f].key.inode = key.inode
Hit(w, f, key) == cache[w][f] # NoEntry /\ cache[w][f].key = key

(***************************************************************************)
(* stat(): a hit, a miss of a file that is there, or no file.  racy        *)
(* (history): the file was opened in the second of its last change.        *)
(***************************************************************************)
StatHit(w) ==
    LET f == File(w) IN
    /\ walk[w].pc = "stat" /\ Hit(w, f, KeyAt(f))
    /\ Level(w, cache[w][f].dirs, cache[w][f].key.mtime = cache[w][f].when)
    /\ UNCHANGED <<clock, link, node, cache, seen>>

StatMiss(w) ==
    LET f == File(w) IN
    /\ walk[w].pc = "stat" /\ ~Hit(w, f, KeyAt(f))
    /\ IF link[f] = NoInode THEN Level(w, Nothing, FALSE)
                            ELSE walk' = [walk EXCEPT ![w].pc = "open"]
    /\ UNCHANGED <<clock, link, node, cache, seen>>

\* read_and_cache: open() and fstat() of what is there now.
Open(w) ==
    LET f == File(w)
        j == link[f]
    IN  /\ walk[w].pc = "open"
        /\ IF j = NoInode \/ ~node[f][j].trusted THEN Level(w, Nothing, FALSE)
           ELSE walk' = [walk EXCEPT ![w].pc = "opened", ![w].fd = j,
                                     ![w].key = KeyOf(f, j), ![w].when = clock]
        /\ UNCHANGED <<clock, link, node, cache, seen>>

\* fseek() and ftell()
Measure(w) ==
    LET size == Size(File(w), walk[w].fd) IN
    /\ walk[w].pc = "opened"
    /\ IF size = 0 \/ size > SizeLimit THEN Level(w, Nothing, FALSE)
       ELSE walk' = [walk EXCEPT ![w].pc = "measured", ![w].size = size]
    /\ UNCHANGED <<clock, link, node, cache, seen>>

(***************************************************************************)
(* fread() of the bytes measured: refused when there are fewer, or more    *)
(* than fstat() said.  Then the parse and htaccess_cache_put, which keeps  *)
(* the key of fstat(); a full table leaves the list uncached.              *)
(***************************************************************************)
Entries(w) == {f \in Files : cache[w][f] # NoEntry}
Put(w, f, dirs) ==
    IF cache[w][f] # NoEntry \/ Cardinality(Entries(w)) < CACHE_MAX_ENTRIES
    THEN cache' = [cache EXCEPT ![w][f] = [key |-> walk[w].key, dirs |-> dirs, when |-> walk[w].when]]
    ELSE UNCHANGED cache

Read(w) ==
    LET f    == File(w)
        size == walk[w].size
        now  == Size(f, walk[w].fd)
        content == node[f][walk[w].fd].content
        dirs == IF now = size THEN content ELSE Torn(content)
    IN  /\ walk[w].pc = "measured"
        /\ IF now < size \/ size > walk[w].key.size
           THEN Level(w, Nothing, FALSE) /\ UNCHANGED cache
           ELSE Level(w, dirs, FALSE) /\ Put(w, f, dirs)
        /\ UNCHANGED <<clock, link, node, seen>>

\* The request is served; the list was copied level by level.
EndWalk(w) ==
    /\ walk[w].pc = "done"
    /\ walk' = [walk EXCEPT ![w] = Idle]
    /\ UNCHANGED <<clock, link, node, cache, seen>>

WalkStep(w) == StatHit(w) \/ StatMiss(w) \/ Open(w) \/ Measure(w) \/ Read(w)

\* A worker that is restarted has an empty cache.
Restart(w) ==
    /\ cache' = [cache EXCEPT ![w] = [f \in Files |-> NoEntry]]
    /\ walk' = [walk EXCEPT ![w] = Idle]
    /\ UNCHANGED <<clock, link, node, seen>>

Edit(f) ==
    \/ \E c \in Contents : Write(f, c)
    \/ \E c \in Contents, j \in Inodes, trusted \in BOOLEAN : Rename(f, j, c, trusted)
    \/ Unlink(f)

WalkNext ==
    \/ \E f \in Files : Edit(f)
    \/ WalkTick
    \/ \E w \in Workers :
        \/ \E path \in Seq(Files) : StartWalk(w, path)
        \/ WalkStep(w)
        \/ EndWalk(w)
        \/ Restart(w)
WalkSpec == WalkInit /\ [][WalkNext]_dvars

-----------------------------------------------------------------------------
DirCacheTypeOK ==
    /\ clock \in Nat
    /\ link \in [Files -> Inodes \cup {NoInode}]
    /\ node \in [Files -> [Inodes -> [content : Contents, mtime : Nat, trusted : BOOLEAN]]]
    /\ \A w \in Workers, f \in Files :
        cache[w][f] # NoEntry => cache[w][f].key.mtime \in Nat /\ cache[w][f].when \in Nat
    /\ \A w \in Workers : walk[w].pc \in {"idle", "stat", "open", "opened", "measured", "done"}

(***************************************************************************)
(* What a request is decided by is what stood in the file at some moment   *)
(* of its walk, whatever the cache holds.  There are two exceptions.  A    *)
(* file that is written in place while it is read may be refused, and      *)
(* count as no directives at all, or be read in part (though it has grown  *)
(* past the limit), for that request.                                      *)
(* And what the key cannot see: a file opened in the second in which it    *)
(* had been changed may be changed again in that second, to the same size  *)
(* and in the same inode; the directives of before are then used until the *)
(* next change (htaccess_cache.c:281).                                     *)
(***************************************************************************)
TooLarge == {c \in Contents : SizeOf(c) > SizeLimit}
Fresh ==
    \A w \in Workers : \A i \in 1 .. Len(walk[w].got) :
        LET level == walk[w].got[i]
            now   == seen[w][walk[w].path[i]]
        IN  \/ level.racy
            \/ level.dirs \in now
            \/ /\ \E c, d \in now : c # d
               /\ level.dirs \in {Nothing} \cup {Torn(c) : c \in now \cup TooLarge}
=============================================================================

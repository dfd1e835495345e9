------------------------------ MODULE ReadTools ------------------------------
(***************************************************************************)
(* The read tools of tools/filesystem.rs: one call on a tree of inodes     *)
(* that another program of the same user may relink or rewrite between any *)
(* two system calls.  A client that reads a range asks for the next page   *)
(* until it is told of the end of the file.                                *)
(*                                                                         *)
(* A path is a sequence of names below "/"; a name is a number, so that    *)
(* the order of BTreeMap and of the final sort is the order of numbers.    *)
(* A descriptor is the inode it holds.  Metrics, times and the wording of  *)
(* answers are left out; a refused call keeps its error class.             *)
(***************************************************************************)
EXTENDS Encodings, FiniteSetsExt

CONSTANTS
    Dirs, Files, Links, Fifos,  \* inodes by type
    FsRoot,                     \* the directory "/"
    LinkTo,                     \* the inode a symbolic link leads to
    Unreadable,                 \* inodes the user may not open for reading
    NoNode, Loop, NoAccess,     \* ENOENT, the ELOOP of O_NOFOLLOW and EACCES
    Names,                      \* names that are not reserved
    Reserved, Quarantines,      \* quarantine names in any case, and as created
    Dot, DotDot,                \* "." as read from a directory, ".." in a path
    NameText,                   \* the bytes of a name
    Displayed,                  \* what to_string_lossy makes of a name
    EncodedBytes,               \* bytes of a name's entry in a response
    Labels,                     \* the configured safe roots
    Scenarios,                  \* trees, contents, calls and outside moves
    Private,                    \* inodes no answer may tell of
    Relinks,                    \* what the outsider links, and where
    Rewrites                    \* what the outsider puts into a file

CONSTANTS
    MAX_DEPTH, MAX_QUERY_BYTES,
    MAX_LIST_ENTRIES, MAX_LIST_STRUCTURED_BYTES,
    MAX_FIND_ENTRIES, MAX_FIND_MATCHES, MAX_FIND_STRUCTURED_BYTES,
    MAX_SEARCH_ENTRIES, MAX_SEARCH_FILES, MAX_SEARCH_FILE_BYTES,
    MAX_SEARCH_TOTAL_BYTES, MAX_SEARCH_MATCHES, MAX_SEARCH_STRUCTURED_BYTES,
    MAX_READ_BYTES, MAX_BINARY_READ_BYTES, MAX_HASH_FILE_BYTES,
    MAX_BINARY_RANGE_BYTES, MAX_BINARY_RANGE_FILE_BYTES,
    MIN_TEXT_RANGE_BYTES, MAX_TEXT_RANGE_BYTES, MAX_TEXT_RANGE_FILE_BYTES

Nodes == Dirs \cup Files \cup Links \cup Fifos

\* Types of inodes are told apart, and so are names, reserved names and dots.
ASSUME NodesAssumption ==
    /\ Dirs \cap Files = {} /\ Dirs \cap Links = {} /\ Files \cap Links = {}
    /\ \A x \in {NoNode, Loop, NoAccess} : x \notin Nodes \cup Private
    /\ Quarantines \subseteq Reserved /\ Names \cap Reserved = {}
    /\ {Dot, DotDot} \cap (Names \cup Reserved) = {}
    /\ Labels \subseteq Seq(Names)

\* Ceilings are natural numbers; a code point fits the smallest text range.
ASSUME CeilingsAssumption ==
    /\ {MAX_DEPTH, MAX_LIST_ENTRIES, MAX_LIST_STRUCTURED_BYTES, MAX_FIND_ENTRIES,
        MAX_FIND_MATCHES, MAX_FIND_STRUCTURED_BYTES, MAX_SEARCH_ENTRIES, MAX_SEARCH_FILES,
        MAX_SEARCH_FILE_BYTES, MAX_SEARCH_TOTAL_BYTES, MAX_SEARCH_MATCHES,
        MAX_SEARCH_STRUCTURED_BYTES, MAX_BINARY_RANGE_BYTES, MAX_BINARY_RANGE_FILE_BYTES,
        MIN_TEXT_RANGE_BYTES, MAX_TEXT_RANGE_BYTES, MAX_TEXT_RANGE_FILE_BYTES} \subseteq Nat
    /\ MIN_TEXT_RANGE_BYTES >= 4 /\ MAX_DEPTH > 0

\* Names have an order, and what is displayed of one has a length.
ASSUME DisplayAssumption ==
    /\ Names \subseteq Nat
    /\ \A n \in Names : Displayed[n] \in Nat /\ EncodedBytes[Displayed[n]] \in Nat

VARIABLES
    entries,    \* directory -> name -> inode
    bytes,      \* file -> its bytes
    moves,      \* outside moves still to come
    moved,      \* whether there was one
    roots,      \* label -> the directory pinned at start-up
    call,       \* the call, its offset moving with the pages
    pc,         \* where the call stands
    fd,         \* the descriptor held
    rest,       \* names still to open
    stat,       \* what the last stat of the file said
    data,       \* bytes read
    walk,       \* state of a traversal
    answer,     \* the answer
    received,   \* bytes the client has put together from earlier pages
    disclosed   \* inodes the answer tells of

world == <<entries, bytes, moves, moved, roots>>
vars == <<entries, bytes, moves, moved, roots, call, pc, fd, rest, stat, data, walk,
          answer, received, disclosed>>

Walkers == {"list_directory", "find_paths", "search_text"}
Ranges == {"read_text_range", "read_binary_range"}
Readers == {"read_file", "read_binary_file", "hash_file", "read_text_range",
            "read_binary_range"}

NoStat == [node |-> NoNode, size |-> 0]
NoAnswer == [status |-> "none", data |-> <<>>, next |-> 0, eof |-> FALSE]
Outcome(status) == [NoAnswer EXCEPT !.status = status]

\* Bytes of an entry of a response, by its path.
Encoded(path) == EncodedBytes[path[Len(path)]] + Len(path)

-----------------------------------------------------------------------------
(* Directories *)

\* Mutant: a file is opened without O_NOFOLLOW.
OpenatFollowing(d, n) == IF entries[d][n] \in Links THEN LinkTo[entries[d][n]] ELSE entries[d][n]

\* openat for reading, with O_NOFOLLOW.
Openat(d, n) ==
    CASE entries[d][n] \in Links -> Loop
      [] entries[d][n] \in Unreadable -> NoAccess
      [] OTHER -> entries[d][n]

\* runtime_quarantine_identities: other names of these inodes are refused too.
QuarantineIdentities(d) == {entries[d][n] : n \in Quarantines} \ {NoNode}

\* open_child_directory, NoNode for an error; nothing but the runtime links a
\* reserved name, so the identities are the same at each of its steps.
OpenChildDirectory(d, n) ==
    LET child == Openat(d, n)
    IN  IF n \notin Reserved /\ child \in Dirs /\ child \notin QuarantineIdentities(d)
        THEN child ELSE NoNode

\* One component of open_metadata_parent_directory, opened with O_PATH.
OpenMetadataParent(d, n) ==
    LET child == entries[d][n]
    IN  CASE n \in Reserved -> "path_rejected"
          [] child \in Links -> "path_rejected"
          [] child \notin Dirs -> "not_found"
          [] child \in QuarantineIdentities(d) -> "path_rejected"
          [] OTHER -> "ok"

\* pin_safe_root: every component of a label is a directory of its own.
PinSafeRoot(tree, label) ==
    FoldLeft(LAMBDA d, n : IF d \in Dirs THEN tree[d][n] ELSE NoNode, FsRoot, label)

\* FileSystemTools::anchor: the roots that hold a path, the nearest one last.
HoldingRoots(path) == {l \in Labels : IsPrefix(l, path.parts)}
AnchorRoot(path) ==
    CHOOSE l \in HoldingRoots(path) : \A k \in HoldingRoots(path) : Len(k) <= Len(l)
RelativePath(path) == SubSeq(path.parts, Len(AnchorRoot(path)) + 1, Len(path.parts))
AnchorRefuses(path) ==
    \/ ~ path.rooted
    \/ \E i \in DOMAIN path.parts : path.parts[i] = DotDot
    \/ HoldingRoots(path) = {}
    \/ \E i \in DOMAIN RelativePath(path) : RelativePath(path)[i] \in Reserved

\* What is private is linked from elsewhere only as a quarantine, which is a
\* directory and private, and under other names next to it.
Confined(tree) ==
    \A d \in Dirs \ Private :
        /\ \A q \in Quarantines : tree[d][q] \in (Dirs \cap Private) \cup {NoNode}
        /\ \A n \in Names :
              tree[d][n] \in Private => \E q \in Quarantines : tree[d][q] = tree[d][n]

Calls == [tool : STRING, path : [rooted : BOOLEAN, parts : Seq(Names \cup Reserved \cup {DotDot})],
          depth : Nat, query : Seq(Nat), filter : STRING, offset : Nat, first : Nat, length : Nat]

\* The private inodes are those the safe roots do not hold, and the outsider
\* moves nothing from there to here and leaves the quarantines alone.
ASSUME ScenariosAssumption ==
    /\ \A s \in Scenarios :
         /\ s.tree \in [Dirs -> [Names \cup Reserved -> Nodes \cup {NoNode}]] /\ Confined(s.tree)
         /\ s.content \in [Files -> Seq(0..255)]
         /\ s.call \in Calls /\ s.call.first = s.call.offset
         /\ \A l \in Labels : PinSafeRoot(s.tree, l) \notin Private
    /\ \A r \in Relinks :
         /\ r.dir \in Dirs /\ r.name \in Names /\ r.node \in Nodes \cup {NoNode}
         /\ r.dir \notin Private => r.node \notin Private
    /\ Rewrites \subseteq Seq(0..255)

-----------------------------------------------------------------------------
(* The beginning of a call *)

QueryRefused(query, forbidden) ==
    Len(query) \notin 1..MAX_QUERY_BYTES \/ \E i \in DOMAIN query : query[i] \in forbidden

ValidateFindQuery(c) == c.tool = "find_paths" /\ QueryRefused(c.query, {0, 10, 13, 47})
ValidateSearchQuery(c) == c.tool = "search_text" /\ QueryRefused(c.query, {0, 10, 13})
BinaryRangeRefused(c) ==
    /\ c.tool = "read_binary_range"
    /\ c.offset > MAX_BINARY_RANGE_FILE_BYTES \/ c.length \notin 1..MAX_BINARY_RANGE_BYTES
TextRangeRefused(c) ==
    /\ c.tool = "read_text_range"
    /\ \/ c.offset > MAX_TEXT_RANGE_FILE_BYTES
       \/ c.length \notin MIN_TEXT_RANGE_BYTES..MAX_TEXT_RANGE_BYTES

\* unwrap_or(default) and clamp; a depth of 0 stands for an absent one.
Depth(c) ==
    LET asked == IF c.depth > 0 THEN c.depth
                 ELSE IF c.tool = "list_directory" THEN 1 ELSE MAX_DEPTH
    IN  IF asked > MAX_DEPTH THEN MAX_DEPTH ELSE asked

End(result) ==
    /\ pc' = "done"
    /\ answer' = result
    /\ stat' = NoStat
    /\ data' = <<>>
    /\ rest' = <<>>

Refuse(status) == End(Outcome(status)) /\ UNCHANGED <<fd, walk, disclosed>>

StartStatus ==
    CASE ValidateFindQuery(call) \/ ValidateSearchQuery(call) -> "invalid_query"
      [] BinaryRangeRefused(call) \/ TextRangeRefused(call) -> "invalid_range"
      [] AnchorRefuses(call.path) -> "path_rejected"
      [] OTHER -> "ok"

Start ==
    /\ pc = "start"
    /\ IF StartStatus # "ok"
       THEN Refuse(StartStatus)
       ELSE /\ fd' = roots[AnchorRoot(call.path)]
            /\ rest' = RelativePath(call.path)
            /\ pc' = IF call.tool \in Walkers THEN "descend" ELSE "parent"
            /\ UNCHANGED <<stat, data, walk, answer, disclosed>>
    /\ UNCHANGED <<world, call, received>>

\* One component of open_descendant_directory, then the traversal begins.
Descend ==
    /\ pc = "descend"
    /\ LET child == OpenChildDirectory(fd, rest[1])
       IN  \/ /\ rest # <<>> /\ child = NoNode
              /\ Refuse("path_rejected")
           \/ /\ rest # <<>> /\ child # NoNode
              /\ fd' = child
              /\ rest' = Tail(rest)
              /\ UNCHANGED <<pc, stat, data, walk, answer, disclosed>>
           \/ /\ rest = <<>>
              /\ pc' = "pop"
              /\ walk' = [walk EXCEPT !.queue = <<[dir |-> fd, path |-> <<>>, depth |-> 1]>>]
              /\ UNCHANGED <<fd, rest, stat, data, answer, disclosed>>
    /\ UNCHANGED <<world, call, received>>

\* One component of open_metadata_parent_directory; sanitize hides the reason.
Parent ==
    /\ pc = "parent"
    /\ Len(rest) > 1
    /\ LET outcome == OpenMetadataParent(fd, rest[1])
       IN  IF outcome = "ok"
           THEN /\ fd' = entries[fd][rest[1]]
                /\ rest' = Tail(rest)
                /\ UNCHANGED <<pc, stat, data, walk, answer, disclosed>>
           ELSE Refuse(IF call.tool = "sanitize" THEN "path_rejected" ELSE outcome)
    /\ UNCHANGED <<world, call, received>>

\* FileSystemTools::sanitize returns a label, of a missing file too.
Sanitize ==
    /\ pc = "parent"
    /\ call.tool = "sanitize"
    /\ Len(rest) <= 1
    /\ Refuse(IF rest # <<>> /\ entries[fd][rest[1]] \in Links THEN "path_rejected" ELSE "ok")
    /\ UNCHANGED <<world, call, received>>

MetadataStatus(node) ==
    CASE node = NoNode -> "not_found"
      [] rest # <<>> /\ node \in QuarantineIdentities(fd) -> "path_rejected"
      [] node \in Links -> "path_rejected"
      [] node \in Fifos -> "unsupported"
      [] OTHER -> "ok"

\* open_metadata_descriptor and path_metadata: one O_PATH descriptor and its fstat.
PathMetadata ==
    /\ pc = "parent"
    /\ call.tool = "path_metadata"
    /\ Len(rest) <= 1
    /\ LET node == IF rest = <<>> THEN fd ELSE entries[fd][rest[1]]
       IN  /\ End(Outcome(MetadataStatus(node)))
           /\ disclosed' = IF MetadataStatus(node) = "ok" THEN {node} ELSE {}
    /\ UNCHANGED <<world, call, fd, walk, received>>

-----------------------------------------------------------------------------
(* Reading one file *)

MaxFileBytes ==
    CASE call.tool = "read_file" -> MAX_READ_BYTES
      [] call.tool = "read_binary_file" -> MAX_BINARY_READ_BYTES
      [] call.tool = "hash_file" -> MAX_HASH_FILE_BYTES
      [] call.tool = "read_text_range" -> MAX_TEXT_RANGE_FILE_BYTES
      [] OTHER -> MAX_BINARY_RANGE_FILE_BYTES

StatStatus(node) ==
    CASE rest = <<>> -> "path_rejected"
      [] node = NoNode -> "not_found"
      [] node \in Links -> "path_rejected"
      [] node \notin Files -> "unsupported"
      [] Len(bytes[node]) > MaxFileBytes -> "too_large"
      [] OTHER -> "ok"

\* open_verified_regular_file up to its openat; a safe root is no file's name.
StatFile ==
    /\ pc = "parent"
    /\ call.tool \in Readers
    /\ Len(rest) <= 1
    /\ LET node == IF rest = <<>> THEN NoNode ELSE entries[fd][rest[1]]
       IN  IF StatStatus(node) # "ok"
           THEN Refuse(StatStatus(node))
           ELSE /\ stat' = [node |-> node, size |-> Len(bytes[node])]
                /\ pc' = "open"
                /\ UNCHANGED <<fd, rest, data, walk, answer, disclosed>>
    /\ UNCHANGED <<world, call, received>>

OpenStatus(node) ==
    CASE node = NoNode -> "not_found"
      [] node = Loop -> "path_rejected"
      [] node = NoAccess -> "io"
      [] node \notin Files -> "unsupported"
      [] node # stat.node -> "path_rejected"
      [] Len(bytes[node]) > MaxFileBytes -> "too_large"
      [] OTHER -> "ok"

\* The openat and the fstat that must agree with the stat.
OpenVerifiedRegularFile ==
    /\ pc = "open"
    /\ LET node == Openat(fd, rest[1])
       IN  IF OpenStatus(node) # "ok"
           THEN Refuse(OpenStatus(node))
           ELSE /\ fd' = node
                /\ stat' = [node |-> node, size |-> Len(bytes[node])]
                /\ rest' = <<>>
                /\ pc' = "read"
                /\ UNCHANGED <<data, walk, answer, disclosed>>
    /\ UNCHANGED <<world, call, received>>

\* Up to a number of bytes of the open file from an offset, a count from 0.
ReadAt(offset, count) ==
    LET content == bytes[fd]
    IN  SubSeq(content, offset + 1,
               IF offset + count < Len(content) THEN offset + count ELSE Len(content))

\* read_bounded_bytes asks for one byte more than it may return.
ReadBoundedBytes(max) == ReadAt(0, max + 1)

Answer(content) ==
    /\ End([Outcome("ok") EXCEPT !.data = content, !.eof = TRUE])
    /\ disclosed' = {fd}
    /\ UNCHANGED <<fd, walk>>

ReadFile ==
    /\ pc = "read"
    /\ call.tool = "read_file"
    /\ LET content == ReadBoundedBytes(MAX_READ_BYTES)
       IN  \/ /\ Len(content) > MAX_READ_BYTES
              /\ Refuse("too_large")
           \/ /\ Len(content) <= MAX_READ_BYTES /\ ~ IsUtf8(content)
              /\ Refuse("invalid_encoding")
           \/ /\ Len(content) <= MAX_READ_BYTES /\ IsUtf8(content)
              /\ Answer(content)
    /\ UNCHANGED <<world, call, received>>

ReadBinaryFile ==
    /\ pc = "read"
    /\ call.tool = "read_binary_file"
    /\ LET content == ReadBoundedBytes(MAX_BINARY_READ_BYTES)
       IN  \/ /\ Len(content) > MAX_BINARY_READ_BYTES
              /\ Refuse("too_large")
           \/ /\ Len(content) <= MAX_BINARY_READ_BYTES
              /\ Answer(EncodeBase64(content))
    /\ UNCHANGED <<world, call, received>>

\* A digest is represented by the bytes it is the digest of.
HashFile ==
    /\ pc = "read"
    /\ call.tool = "hash_file"
    /\ LET content == ReadBoundedBytes(MAX_HASH_FILE_BYTES)
       IN  \/ /\ Len(content) > MAX_HASH_FILE_BYTES
              /\ Refuse("too_large")
           \/ /\ Len(content) <= MAX_HASH_FILE_BYTES
              /\ Answer(content)
    /\ UNCHANGED <<world, call, received>>

\* Both ranges: the offset is held against the size at the open, then the read.
ReadRange ==
    /\ pc = "read"
    /\ call.tool \in Ranges
    /\ \/ /\ call.offset > stat.size
          /\ Refuse("invalid_range")
       \/ /\ call.offset <= stat.size
          /\ data' = ReadAt(call.offset, call.length)
          /\ pc' = "verify"
          /\ UNCHANGED <<fd, rest, stat, walk, answer, disclosed>>
    /\ UNCHANGED <<world, call, received>>

Page(content, size) ==
    /\ End([status |-> "ok", data |-> content, next |-> call.offset + size,
            eof |-> call.offset + size >= stat.size])
    /\ disclosed' = {fd}
    /\ UNCHANGED <<fd, walk>>

\* Mutant: the size is not read again after the bytes.
SizeTakenOnce == FALSE

\* The size on the open descriptor after the read differs from the one before.
ChangedDuringRead == Len(bytes[fd]) # stat.size

ReadVerifiedBinaryRange ==
    /\ pc = "verify"
    /\ call.tool = "read_binary_range"
    /\ \/ ChangedDuringRead /\ Refuse("changed_during_read")
       \/ ~ ChangedDuringRead /\ Page(EncodeBase64(data), Len(data))
    /\ UNCHANGED <<world, call, received>>

\* A code point the range cuts off is left to the next page, unless the file ends.
TextRangeStatus ==
    LET deferred == EndsWithinCodePoint(data) /\ call.offset + Len(data) < stat.size
    IN  CASE ChangedDuringRead -> "changed_during_read"
          [] data # <<>> /\ IsContinuation(data[1]) -> "invalid_range"
          [] ~ IsUtf8(data) /\ ~ deferred -> "invalid_encoding"
          [] OTHER -> "ok"

ReadVerifiedTextRange ==
    /\ pc = "verify"
    /\ call.tool = "read_text_range"
    /\ IF TextRangeStatus = "ok"
       THEN Page(SubSeq(data, 1, ValidUpTo(data)), ValidUpTo(data))
       ELSE Refuse(TextRangeStatus)
    /\ UNCHANGED <<world, call, received>>

\* What the client makes of a page.
Content(tool, digits) == IF tool = "read_text_range" THEN digits ELSE DecodeBase64(digits)

\* The client asks for what follows a page that was not the last.
NextPage ==
    /\ pc = "done"
    /\ call.tool \in Ranges
    /\ answer.status = "ok"
    /\ ~ answer.eof
    /\ received' = received \o Content(call.tool, answer.data)
    /\ call' = [call EXCEPT !.offset = answer.next]
    /\ answer' = NoAnswer
    /\ pc' = "start"
    /\ UNCHANGED <<world, fd, rest, stat, data, walk, disclosed>>

-----------------------------------------------------------------------------
(* Traversals *)

NoWalk == [queue |-> <<>>, here |-> [dir |-> NoNode, path |-> <<>>, depth |-> 0],
           listing |-> {}, pending |-> {}, found |-> {}, used |-> 0, examined |-> 0,
           files |-> 0, scanned |-> 0, truncated |-> FALSE]

\* Bytes of a list of entries with the commas between them.
ListBytes(S) ==
    Cardinality(UNION {{e} \X (1..Encoded(e.path)) : e \in S})
        + (IF S = {} THEN 0 ELSE Cardinality(S) - 1)

\* Order of paths, and of matches by path, line and column.
SeqLess(a, b) ==
    \E k \in 1..Len(b) : /\ \A i \in 1 .. k - 1 : i <= Len(a) /\ a[i] = b[i]
                         /\ k > Len(a) \/ a[k] < b[k]
UpTo(S, e) == {d \in S : ~ SeqLess(e.path \o e.at, d.path \o d.at)}

\* What stays of a sorted list when its last element is popped until it fits.
PopUntilFits(S, Fits(_)) == {e \in S : Fits(UpTo(S, e))}

DisplayedPath(path) == [i \in DOMAIN path |-> Displayed[path[i]]]

\* What ends a traversal, asked of each queued directory.
ListExhausted ==
    \/ Cardinality(walk.found) >= MAX_LIST_ENTRIES
    \/ walk.used >= MAX_LIST_STRUCTURED_BYTES
FindExhausted ==
    walk.examined >= MAX_FIND_ENTRIES \/ Cardinality(walk.found) >= MAX_FIND_MATCHES
SearchExhausted ==
    \/ walk.files >= MAX_SEARCH_FILES
    \/ walk.scanned >= MAX_SEARCH_TOTAL_BYTES
    \/ Cardinality(walk.found) >= MAX_SEARCH_MATCHES
Exhausted ==
    CASE call.tool = "list_directory" -> ListExhausted
      [] call.tool = "find_paths" -> FindExhausted
      [] OTHER -> SearchExhausted \/ walk.examined >= MAX_SEARCH_ENTRIES

\* The next directory of the queue, its names in whatever order it gives them.
PopDirectory ==
    /\ pc = "pop"
    /\ \/ /\ walk.queue = <<>>
          /\ pc' = "publish"
          /\ UNCHANGED walk
       \/ /\ walk.queue # <<>> /\ Exhausted
          /\ pc' = "publish"
          /\ walk' = [walk EXCEPT !.queue = <<>>, !.truncated = TRUE]
       \/ /\ walk.queue # <<>> /\ ~ Exhausted
          /\ pc' = "examine"
          /\ LET head == Head(walk.queue)
             IN  walk' = [walk EXCEPT
                     !.queue = Tail(@), !.here = head,
                     !.listing = {Dot} \cup {n \in Names \cup Reserved :
                                             entries[head.dir][n] # NoNode}]
    /\ UNCHANGED <<world, call, fd, rest, stat, data, answer, received, disclosed>>

\* A directory that cannot be read, or a sibling quarantine that cannot be
\* looked at, ends the whole call, and so does a name that list_directory
\* cannot read; what was found is dropped.
TraversalFails ==
    /\ \/ pc = "pop" /\ walk.queue # <<>> /\ ~ Exhausted
       \/ pc = "examine" /\ call.tool = "list_directory"
    /\ End(Outcome("io"))
    /\ walk' = NoWalk
    /\ UNCHANGED <<world, call, fd, received, disclosed>>

\* One name of a directory and its statat: nothing is kept of what is skipped.
Skipped(w, n) == [w EXCEPT !.listing = @ \ {n}]
Entry(n) ==
    LET node == entries[walk.here.dir][n]
    IN  [name |-> n, path |-> Append(walk.here.path, n), at |-> <<>>, node |-> node,
         size |-> IF node \in Files THEN Len(bytes[node]) ELSE 0]
IsEntry(n) ==
    /\ n \notin Reserved \cup {Dot}
    /\ entries[walk.here.dir][n] # NoNode
    /\ entries[walk.here.dir][n] \notin QuarantineIdentities(walk.here.dir)

\* Mutant: the comma after what is there already is not counted.
CommaForgotten(S) ==
    /\ Cardinality(walk.found) + Cardinality(S) <= MAX_LIST_ENTRIES
    /\ walk.used + ListBytes(S) <= MAX_LIST_STRUCTURED_BYTES

\* list_directory keeps the smallest entries that fit what is left of the answer,
\* one for each displayed path.
ListFits(S) ==
    /\ Cardinality(walk.found) + Cardinality(S) <= MAX_LIST_ENTRIES
    /\ walk.used + ListBytes(S) + (IF walk.found = {} THEN 0 ELSE 1) <= MAX_LIST_STRUCTURED_BYTES
ListExamine(n) ==
    IF ~ IsEntry(n) \/ entries[walk.here.dir][n] \in Links
    THEN Skipped(walk, n)
    ELSE LET entry == [Entry(n) EXCEPT !.path = DisplayedPath(@)]
             inserted == {e \in walk.pending : e.path # entry.path} \cup {entry}
             kept == PopUntilFits(inserted, ListFits)
         IN  [Skipped(walk, n) EXCEPT !.pending = kept,
                                      !.truncated = @ \/ kept # inserted]

\* find_paths and search_text stop reading at their ceiling of entries, and pass
\* over what is neither a file nor a directory or has a name that is no text.
ExamineUpTo(n, max) ==
    IF walk.examined >= max
    THEN [walk EXCEPT !.listing = {}, !.truncated = TRUE]
    ELSE LET counted == IF n \in Reserved \cup {Dot} THEN walk
                        ELSE [walk EXCEPT !.examined = @ + 1]
         IN  IF /\ IsEntry(n) /\ Displayed[n] = n
                /\ entries[walk.here.dir][n] \in Files \cup Dirs
             THEN [Skipped(counted, n) EXCEPT !.pending = @ \cup {Entry(n)}]
             ELSE Skipped(counted, n)
FindExamine(n) == ExamineUpTo(n, MAX_FIND_ENTRIES)
SearchExamine(n) == ExamineUpTo(n, MAX_SEARCH_ENTRIES)

Examined(n) ==
    CASE call.tool = "list_directory" -> ListExamine(n)
      [] call.tool = "find_paths" -> FindExamine(n)
      [] OTHER -> SearchExamine(n)

Examine(n) ==
    /\ pc = "examine"
    /\ n \in walk.listing
    /\ walk' = Examined(n)
    /\ pc' = IF Examined(n).listing = {} THEN "process" ELSE "examine"
    /\ UNCHANGED <<world, call, fd, rest, stat, data, answer, received, disclosed>>

\* A directory found above the last level is opened and queued; a failure is
\* counted and passed over.
Queued(w, e) ==
    LET child == OpenChildDirectory(w.here.dir, e.name)
    IN  IF e.node \in Dirs /\ w.here.depth < Depth(call) /\ child # NoNode
        THEN [w EXCEPT !.queue = Append(@, [dir |-> child, depth |-> w.here.depth + 1,
                                            path |-> Append(w.here.path, e.name)])]
        ELSE w

Found(path, node, at) == [path |-> path, node |-> node, at |-> at]

ListProcess(w, e) ==
    Queued([w EXCEPT !.used = @ + Encoded(e.path) + (IF w.found = {} THEN 0 ELSE 1),
                     !.found = @ \cup {Found(e.path, e.node, <<>>)}], e)

NameContains(n, query) == MatchIndices(NameText[n], query) # {}
FilterMatches(filter, node) ==
    \/ filter = "any"
    \/ filter = "file" /\ node \in Files
    \/ filter = "directory" /\ node \in Dirs

FindProcess(w, e) ==
    IF Cardinality(w.found) >= MAX_FIND_MATCHES
    THEN [w EXCEPT !.pending = {}, !.queue = <<>>, !.truncated = TRUE]
    ELSE Queued(IF NameContains(e.name, call.query) /\ FilterMatches(call.filter, e.node)
                THEN [w EXCEPT !.found = @ \cup {Found(e.path, e.node, <<>>)}] ELSE w, e)

\* scan_search_file: the name is opened again, and its stat is not repeated.
ScanSearchFile(w, e) ==
    LET node == Openat(w.here.dir, e.name)
        left == MAX_SEARCH_TOTAL_BYTES - w.scanned
        limit == IF MAX_SEARCH_FILE_BYTES < left THEN MAX_SEARCH_FILE_BYTES ELSE left
        content == bytes[node]
        all == {Found(e.path, node, at) : at \in TextMatches(content, call.query)}
        room == MAX_SEARCH_MATCHES - Cardinality(w.found)
        kept == PopUntilFits(all, LAMBDA S : Cardinality(S) <= room)
        counted == [w EXCEPT !.files = @ + 1, !.scanned = @ + Len(content)]
    IN  IF e.size > limit THEN [w EXCEPT !.truncated = TRUE]
        ELSE IF node \notin Files THEN w
        ELSE IF Len(content) > limit THEN [w EXCEPT !.truncated = TRUE]
        ELSE IF ~ IsUtf8(content) THEN counted
        ELSE [counted EXCEPT !.found = @ \cup kept, !.truncated = @ \/ kept # all]

SearchProcess(w, e) ==
    IF SearchExhausted THEN [w EXCEPT !.pending = {}, !.truncated = TRUE]
    ELSE IF e.node \in Dirs THEN Queued(w, e)
    ELSE ScanSearchFile(w, e)

Processed(w, e) ==
    CASE call.tool = "list_directory" -> ListProcess(w, e)
      [] call.tool = "find_paths" -> FindProcess(w, e)
      [] OTHER -> SearchProcess(w, e)

\* The candidates of a directory, smallest first, once it is read.
Process ==
    /\ pc = "process"
    /\ \/ /\ walk.pending = {}
          /\ pc' = "pop"
          /\ walk' = [walk EXCEPT !.here = NoWalk.here]
       \/ \E e \in walk.pending :
            /\ UpTo(walk.pending, e) = {e}
            /\ walk' = Processed([walk EXCEPT !.pending = @ \ {e}], e)
            /\ UNCHANGED pc
    /\ UNCHANGED <<world, call, fd, rest, stat, data, answer, received, disclosed>>

\* Mutant: a match is dropped from a full answer without a word.
DroppedSilently(max) ==
    [walk EXCEPT !.found = PopUntilFits(@, LAMBDA S : ListBytes(S) <= max)]

\* The largest matches are popped until the answer fits.
Trimmed(max) ==
    LET kept == PopUntilFits(walk.found, LAMBDA S : ListBytes(S) <= max)
    IN  [walk EXCEPT !.found = kept, !.truncated = @ \/ kept # walk.found]

ListDirectory == walk
FindPaths == Trimmed(MAX_FIND_STRUCTURED_BYTES)
SearchText == Trimmed(MAX_SEARCH_STRUCTURED_BYTES)

Published ==
    CASE call.tool = "list_directory" -> ListDirectory
      [] call.tool = "find_paths" -> FindPaths
      [] OTHER -> SearchText

Publish ==
    /\ pc = "publish"
    /\ walk' = Published
    /\ disclosed' = {m.node : m \in Published.found}
    /\ End(Outcome("ok"))
    /\ UNCHANGED <<world, call, fd, received>>

-----------------------------------------------------------------------------
(* Another program of the user *)

Relink(d, n, node) ==
    /\ pc # "done" /\ moves > 0
    /\ entries[d][n] # node
    /\ entries' = [entries EXCEPT ![d][n] = node]
    /\ moves' = moves - 1
    /\ moved' = TRUE
    /\ UNCHANGED <<bytes, roots, call, pc, fd, rest, stat, data, walk, answer, received,
                   disclosed>>

Rewrite(f, content) ==
    /\ pc # "done" /\ moves > 0
    /\ bytes[f] # content
    /\ bytes' = [bytes EXCEPT ![f] = content]
    /\ moves' = moves - 1
    /\ moved' = TRUE
    /\ UNCHANGED <<entries, roots, call, pc, fd, rest, stat, data, walk, answer, received,
                   disclosed>>

Init ==
    /\ \E s \in Scenarios :
         /\ entries = s.tree
         /\ bytes = s.content
         /\ call = s.call
         /\ moves = s.moves
         /\ \A l \in Labels : PinSafeRoot(s.tree, l) \in Dirs \ {FsRoot}
         /\ roots = [l \in Labels |-> PinSafeRoot(s.tree, l)]
    /\ moved = FALSE
    /\ pc = "start"
    /\ fd = NoNode
    /\ rest = <<>>
    /\ stat = NoStat
    /\ data = <<>>
    /\ walk = NoWalk
    /\ answer = NoAnswer
    /\ received = <<>>
    /\ disclosed = {}

Next ==
    \/ Start \/ Descend \/ Parent \/ Sanitize \/ PathMetadata
    \/ StatFile \/ OpenVerifiedRegularFile
    \/ ReadFile \/ ReadBinaryFile \/ HashFile \/ ReadRange
    \/ ReadVerifiedBinaryRange \/ ReadVerifiedTextRange \/ NextPage
    \/ PopDirectory \/ TraversalFails \/ Process \/ Publish
    \/ \E n \in Names \cup Reserved \cup {Dot} : Examine(n)
    \/ \E r \in Relinks : Relink(r.dir, r.name, r.node)
    \/ \E f \in Files \ Private, content \in Rewrites : Rewrite(f, content)

Spec == Init /\ [][Next]_vars

-----------------------------------------------------------------------------
(* Properties *)

\* Whatever is relinked between a stat and an open, an answer tells of nothing
\* outside the pinned safe roots and of nothing in a quarantine, under whatever
\* name (open_child_directory, open_verified_regular_file, scan_search_file).
OnlySafeDisclosed == disclosed \cap (Private \cup Links) = {}

\* The inodes that names lead to in a tree, one after the other.
Trail(tree, top, names) ==
    LET at[i \in 0..Len(names)] ==
            IF i = 0 THEN top
            ELSE IF at[i - 1] \in Dirs THEN tree[at[i - 1]][names[i]] ELSE NoNode
    IN  at

PathNames == RelativePath(call.path)
At == Trail(entries, roots[AnchorRoot(call.path)], PathNames)
Target == At[Len(PathNames)]

\* What a traversal is about: a tree, the files in it, where it begins, and the call.
Scene == [tree |-> entries, content |-> bytes, top |-> Target, call |-> call]

\* list_directory takes every name, the others only names that are text.
Followed(tool) == {n \in Names : tool = "list_directory" \/ Displayed[n] = n}
Shown(tool, path) == IF tool = "list_directory" THEN DisplayedPath(path) ELSE path

\* The paths of a call's depth that lead, through directories that can be read, to
\* something that is neither private nor a symbolic link.
NodeAt(s, path) == Trail(s.tree, s.top, path)[Len(path)]
Passable(s, path, k) ==
    \A i \in 1..k : Trail(s.tree, s.top, path)[i] \in Dirs \ (Private \cup Unreadable)
Reachable(s) ==
    {p \in UNION {[1..k -> Followed(s.call.tool)] : k \in 1..Depth(s.call)} :
        Passable(s, p, Len(p) - 1) /\ NodeAt(s, p) \notin Links \cup Private \cup {NoNode}}

\* Where a call wants something of what a path leads to.
WantedAt(s, path) ==
    LET node == NodeAt(s, path)
    IN  CASE s.call.tool = "list_directory" -> {<<>>}
          [] s.call.tool = "find_paths" ->
                {at \in {<<>>} : /\ node \in Files \cup Dirs
                                 /\ NameContains(path[Len(path)], s.call.query)
                                 /\ FilterMatches(s.call.filter, node)}
          [] OTHER ->
                IF node \in Files \ Unreadable /\ IsUtf8(s.content[node])
                THEN TextMatches(s.content[node], s.call.query) ELSE {}
Wants(s, path) == {Shown(s.call.tool, path)} \X WantedAt(s, path)
Expected(s) == UNION {Wants(s, p) : p \in Reachable(s)}

Got(w) == {<<m.path, m.at>> : m \in w.found}

\* What is displayed like a directory next to it is passed over anyway.
DirectoriesApart(tree) ==
    \A d \in Dirs \ Private, n \in Names, m \in Names :
        tree[d][n] \in Dirs /\ n # m /\ Displayed[n] = Displayed[m]
        => tree[d][m] \in Links \cup Private \cup {NoNode}
Apart(s) == s.call.tool = "list_directory" => DirectoriesApart(s.tree)

\* No traversal examines, opens, reads or answers more than its ceilings allow, at
\* any step and whatever is relinked: list_directory while it reads, find_paths and
\* search_text once the largest matches are popped (the budgets of
\* collect_entries_descriptor_relative, collect_path_matches_descriptor_relative,
\* collect_text_matches_descriptor_relative and scan_search_file).
CeilingsKept ==
    /\ call.tool = "list_directory" =>
         /\ Cardinality(walk.found) <= MAX_LIST_ENTRIES
         /\ ListBytes(walk.found) <= MAX_LIST_STRUCTURED_BYTES
    /\ call.tool = "find_paths" =>
         /\ Cardinality(walk.found) <= MAX_FIND_MATCHES
         /\ walk.examined <= MAX_FIND_ENTRIES
         /\ pc = "done" => ListBytes(walk.found) <= MAX_FIND_STRUCTURED_BYTES
    /\ call.tool = "search_text" =>
         /\ Cardinality(walk.found) <= MAX_SEARCH_MATCHES
         /\ walk.examined <= MAX_SEARCH_ENTRIES
         /\ walk.files <= MAX_SEARCH_FILES
         /\ walk.scanned <= MAX_SEARCH_TOTAL_BYTES
         /\ pc = "done" => ListBytes(walk.found) <= MAX_SEARCH_STRUCTURED_BYTES

\* In a tree nobody touches, the answer of list_directory, find_paths or
\* search_text holds only what is there, and one that does not say it was truncated
\* is complete but for what cannot be opened; entries displayed alike count as one,
\* and list_directory keeps the last of them, so that a directory among them may be
\* missing with all that is below it.
WalkHonest ==
    call.tool \in Walkers /\ pc = "done" /\ answer.status = "ok" /\ ~ moved =>
        /\ Got(walk) \subseteq Expected(Scene)
        /\ ~ walk.truncated /\ Apart(Scene) => Got(walk) = Expected(Scene)

\* Pages of a file nobody touches are its bytes from the first offset on, without
\* a gap and to the end; each page but the last brings something, and the server
\* refuses an offset it gave itself, or calls a text badly encoded, only if the
\* bytes from the first offset on are no text.  And though the file changes, a page
\* is the last exactly if it reaches the end that the file has when the page is
\* returned (read_verified_text_range, read_verified_binary_range, encode_base64).
PagesAssemble ==
    call.tool \in Ranges /\ pc = "done" =>
        /\ answer.status = "ok" =>
             /\ answer.eof <=> answer.next >= Len(bytes[fd])
             /\ ~ moved =>
                  /\ received \o Content(call.tool, answer.data)
                        = SubSeq(bytes[fd], call.first + 1, answer.next)
                  /\ answer.eof \/ answer.next > call.offset
        /\ /\ ~ moved /\ answer.status # "ok"
           /\ call.offset # call.first \/ answer.status = "invalid_encoding"
           => /\ call.tool = "read_text_range"
              /\ answer.status \in {"invalid_range", "invalid_encoding"}
              /\ ~ IsUtf8(SubSeq(bytes[fd], call.first + 1, Len(bytes[fd])))

-----------------------------------------------------------------------------
(* The inductive invariant behind OnlySafeDisclosed *)

Safe == Nodes \ (Private \cup Links)

Queueable == [dir : Dirs \ Private, path : Seq(Names), depth : Nat]

\* Everything a traversal has queued, keeps or reports is safe.
WalkSafe(w) ==
    /\ w = [f \in DOMAIN NoWalk |-> w[f]]
    /\ w.queue \in Seq(Queueable)
    /\ \A e \in w.pending : e.node \in Safe /\ e.name \in Names
    /\ \A m \in w.found : m.node \in Safe

\* A descriptor is never one of a private inode.
DescriptorSafe ==
    /\ pc \in {"descend", "parent", "open"} => fd \in Dirs \ Private
    /\ pc = "open" => rest # <<>>
    /\ pc \in {"read", "verify"} => fd \in Files \ Private
    /\ pc \in {"examine", "process"} => walk.here \in Queueable

TreeSafe ==
    /\ entries \in [Dirs -> [Names \cup Reserved -> Nodes \cup {NoNode}]] /\ Confined(entries)
    /\ roots \in [Labels -> Dirs \ Private]

CallSafe ==
    /\ call = [f \in {"tool", "path", "depth", "query", "filter", "offset", "first", "length"} |->
                 call[f]]
    /\ call.path.parts \in Seq(Names \cup Reserved \cup {DotDot})
    /\ rest \in Seq(Names)

IInv ==
    TreeSafe /\ CallSafe /\ DescriptorSafe /\ WalkSafe(walk) /\ disclosed \subseteq Safe

-----------------------------------------------------------------------------
(* The inductive invariant behind PagesAssemble *)

Taken == Len(PathNames) - Len(rest)

\* The first k names lead through directories that are no quarantines.
Entered(k) ==
    \A i \in 1..k : At[i] \in Dirs /\ \A q \in Quarantines : entries[At[i - 1]][q] # At[i]

\* Nothing but the offset of the call can be refused.
Acceptable ==
    /\ ~ AnchorRefuses(call.path)
    /\ call.length \in IF call.tool = "read_text_range"
                       THEN MIN_TEXT_RANGE_BYTES..MAX_TEXT_RANGE_BYTES
                       ELSE 1..MAX_BINARY_RANGE_BYTES
FileLimit ==
    IF call.tool = "read_text_range" THEN MAX_TEXT_RANGE_FILE_BYTES ELSE MAX_BINARY_RANGE_FILE_BYTES
Reached ==
    /\ Acceptable
    /\ PathNames # <<>> /\ Entered(Len(PathNames) - 1)
    /\ Target \in Files \ Unreadable
    /\ Len(bytes[Target]) <= FileLimit

\* The bytes from the first offset to another, which no code point of a text straddles.
Wanted == SubSeq(bytes[Target], call.first + 1, Len(bytes[Target]))
Assembled(got, upto) ==
    /\ upto \in call.first..Len(bytes[Target])
    /\ got = SubSeq(bytes[Target], call.first + 1, upto)
    /\ call.tool = "read_text_range" => Utf8Run(Wanted)[upto - call.first] = Whole

PagesTyped ==
    /\ bytes \in [Files -> Seq(0..255)]
    /\ {call.offset, call.first, call.length} \subseteq Nat
    /\ pc \in {"start", "parent", "open", "read", "verify", "done"}
    /\ pc = "verify" => data \in Seq(0..255)
    /\ pc = "done" /\ answer.status = "ok" =>
         /\ answer.next \in Nat
         /\ answer.eof <=> answer.next >= Len(bytes[fd])

\* Where the call stands on the trail, in a tree nobody touched.
OnTrail ==
    /\ pc \in {"parent", "open"} =>
         /\ Acceptable /\ Entered(Taken)
         /\ Taken \in 0..Len(PathNames) /\ fd = At[Taken]
         /\ rest = SubSeq(PathNames, Taken + 1, Len(PathNames))
    /\ pc = "open" => Len(rest) = 1 /\ stat.node = Target
    /\ pc \in {"read", "verify"} =>
         Reached /\ fd = Target /\ stat.size = Len(bytes[Target])
    /\ pc = "verify" => /\ call.offset <= stat.size
                       /\ data = ReadAt(call.offset, call.length)

\* What the client has, in a tree nobody touched.
InOrder ==
    /\ IF call.offset = call.first THEN received = <<>>
       ELSE Reached /\ Assembled(received, call.offset)
    /\ pc = "done" /\ answer.status = "ok" =>
         /\ Reached /\ fd = Target
         /\ Assembled(received \o Content(call.tool, answer.data), answer.next)
         /\ answer.eof \/ answer.next > call.offset
    /\ /\ pc = "done" /\ answer.status # "ok"
       /\ call.offset # call.first \/ answer.status = "invalid_encoding"
       => /\ call.tool = "read_text_range"
          /\ answer.status \in {"invalid_range", "invalid_encoding"}
          /\ fd = Target /\ ~ IsUtf8(Wanted)

PInv == call.tool \in Ranges => PagesTyped /\ (~ moved => OnTrail /\ InOrder)

-----------------------------------------------------------------------------
(* The inductive invariant behind CeilingsKept *)

\* Entries have a place in the order of an answer and a length.
Items(S) ==
    /\ IsFiniteSet(S)
    /\ \A e \in S : e.path \in Seq(Nat) /\ e.at \in Seq(Nat) /\ Encoded(e.path) \in Nat

\* What list_directory found and what it still keeps fit together.
ListHeld(w) ==
    /\ ListBytes(w.found) <= w.used
    /\ Cardinality(w.found) + Cardinality(w.pending) <= MAX_LIST_ENTRIES
    /\ w.used + (IF w.pending = {} THEN 0
                 ELSE ListBytes(w.pending) + (IF w.found = {} THEN 0 ELSE 1))
         <= MAX_LIST_STRUCTURED_BYTES
FindHeld(w) ==
    Cardinality(w.found) <= MAX_FIND_MATCHES /\ w.examined <= MAX_FIND_ENTRIES
SearchHeld(w) ==
    /\ Cardinality(w.found) <= MAX_SEARCH_MATCHES /\ w.examined <= MAX_SEARCH_ENTRIES
    /\ w.files <= MAX_SEARCH_FILES /\ w.scanned <= MAX_SEARCH_TOTAL_BYTES
Held(tool, w) ==
    /\ Items(w.found) /\ Items(w.pending)
    /\ {w.used, w.examined, w.files, w.scanned} \subseteq Nat
    /\ tool = "list_directory" => ListHeld(w)
    /\ tool = "find_paths" => FindHeld(w)
    /\ tool = "search_text" => SearchHeld(w)

Walking == {"pop", "examine", "process", "publish"}

CInv ==
    /\ bytes \in [Files -> Seq(0..255)]
    /\ call.query \in Seq(Nat)
    /\ Held(call.tool, walk)
    /\ pc \in Walking \cup {"descend"} => call.tool \in Walkers
    /\ call.tool \in Walkers /\ pc \notin Walking \cup {"done"} => walk.found = {}
    /\ pc = "done" =>
         /\ call.tool = "find_paths" => ListBytes(walk.found) <= MAX_FIND_STRUCTURED_BYTES
         /\ call.tool = "search_text" => ListBytes(walk.found) <= MAX_SEARCH_STRUCTURED_BYTES

-----------------------------------------------------------------------------
(* The inductive invariant behind WalkHonest *)

\* A directory on its way into the answer, and one of its entries.
Visit(s, v) ==
    /\ v.path \in Seq(Followed(s.call.tool))
    /\ v.depth = Len(v.path) + 1 /\ v.depth <= Depth(s.call)
    /\ v.dir = NodeAt(s, v.path) /\ v.dir \in Dirs \ Private
    /\ Passable(s, v.path, Len(v.path))
Candidate(s, v, e) ==
    /\ e.name \in Followed(s.call.tool)
    /\ e.path = Shown(s.call.tool, Append(v.path, e.name))
    /\ e.node = s.tree[v.dir][e.name] /\ e.node \notin Links \cup Private \cup {NoNode}
    /\ s.call.tool # "list_directory" => e.node \in Files \cup Dirs

\* What is below a queued directory, and what is at or below a name of the present
\* one that is not read or not processed yet, is still to come.
Below(dir, path) == Len(dir) < Len(path) /\ SubSeq(path, 1, Len(dir)) = dir
Ahead(tool, w, n) ==
    n \in w.listing \/ \E e \in w.pending : e.path = Shown(tool, Append(w.here.path, n))
Coming(s, w, p) ==
    \/ \E i \in DOMAIN w.queue : Below(w.queue[i].path, p)
    \/ Below(w.here.path, p) /\ Ahead(s.call.tool, w, p[Len(w.here.path) + 1])

Covered(s, w) ==
    \A p \in Reachable(s) : Coming(s, w, p) \/ Wants(s, p) \subseteq Got(w)
Walked(s, w) ==
    /\ \A i \in DOMAIN w.queue : Visit(s, w.queue[i])
    /\ w.listing # {} \/ w.pending # {} => Visit(s, w.here)
    /\ \A e \in w.pending : Candidate(s, w.here, e)
    /\ Got(w) \subseteq Expected(s)
    /\ ~ w.truncated /\ Apart(s) => Covered(s, w)

\* Where a traversal stands, in a tree nobody touched.
WalkPlace ==
    /\ pc \in {"start", "descend", "done"} \cup Walking
    /\ pc \in {"start", "descend"} => walk = NoWalk
    /\ pc # "examine" => walk.listing = {}
    /\ pc \notin {"examine", "process"} => walk.pending = {}
    /\ pc \in {"publish", "done"} => walk.queue = <<>>
DescentPlace ==
    /\ ~ AnchorRefuses(call.path)
    /\ Taken \in 0..Len(PathNames) /\ fd = At[Taken]
    /\ rest = SubSeq(PathNames, Taken + 1, Len(PathNames))

WInv ==
    call.tool \in Walkers =>
        /\ call.depth \in Nat /\ WalkPlace
        /\ ~ moved /\ pc = "descend" => DescentPlace
        /\ ~ moved /\ (pc \in Walking \/ (pc = "done" /\ answer.status = "ok")) =>
             Target \in Dirs /\ Walked(Scene, walk)

=============================================================================

----------------------------- MODULE MCReadTools -----------------------------
(***************************************************************************)
(* Three trees below the safe root /1, whose directory /1/2 is a safe root *)
(* of its own.  In the first, the quarantine of /1 also has the names 3    *)
(* (an alias) and 7 (its own name in another case), and two symbolic links *)
(* lead to what lies outside.  The second is wider and deeper than the     *)
(* ceilings, and the names 5 and 6 are no text and displayed alike; in the *)
(* third, 5 is the name of a directory.                                    *)
(***************************************************************************)
EXTENDS ReadTools

MCLinkTo == [lf |-> "of", ld |-> "out"]
MCNames == 1..6
MCAll == MCNames \cup {0, 7}
MCNameText == <<<<97, 98>>, <<98>>, <<97>>, <<98, 98>>, <<255>>, <<254, 98>>>>
MCDisplayed == [n \in MCNames |-> IF n < 5 THEN n ELSE 9]
MCEncodedBytes == [n \in MCNames \cup {9} |-> IF n = 2 THEN 4 ELSE 1]
MCLabels == {<<1>>, <<1, 2>>}

Links1(pairs) == [n \in MCAll |-> IF \E p \in pairs : p[1] = n
                                  THEN (CHOOSE p \in pairs : p[1] = n)[2] ELSE "none"]
Tree(safe, sub, deep) ==
    [root |-> Links1({<<1, "safe">>, <<3, "out">>}),
     safe |-> Links1(safe), sub |-> Links1(sub), deep |-> Links1(deep), shut |-> Links1({<<1, "f1">>}),
     q |-> Links1({<<1, "qf">>}), out |-> Links1({<<1, "of">>})]
Tree1 == Tree({<<0, "q">>, <<1, "f1">>, <<2, "sub">>, <<3, "q">>, <<4, "lf">>, <<7, "q">>},
              {<<1, "f2">>, <<2, "p">>, <<3, "ld">>, <<4, "f4">>}, {})
Tree2 == Tree({<<1, "f1">>, <<2, "sub">>, <<3, "f3">>, <<5, "f2">>, <<6, "p">>},
              {<<1, "f3">>, <<2, "f2">>, <<4, "deep">>}, {<<1, "f3">>, <<2, "shut">>, <<3, "f1">>})
Tree3 == Tree({<<2, "deep">>, <<5, "sub">>, <<6, "f1">>}, {<<1, "f2">>, <<5, "f3">>, <<6, "f1">>}, {})

Plain == <<97, 10, 98, 97, 97>>
Euro == <<97, 226, 130, 172, 98, 99>>
Contents == {Plain, Euro, <<240, 159, 152, 128, 97>>, <<97, 98, 99, 226, 130>>,
             <<97, 237, 160, 128, 97>>,
             <<97, 98, 99, 100, 128>>, <<>>}
Content1(f1) == [f1 |-> f1, f2 |-> <<97, 97>>, f3 |-> <<98, 97, 255>>, f4 |-> <<97>>,
                 qf |-> <<97>>, of |-> <<97>>]
MCRewrites == {<<97>>, Append(Euro, 97)}

MCRelinks == {[dir |-> d, name |-> 1, node |-> n] :
                 d \in {"safe", "sub"}, n \in {"lf", "p", "none", "f3"}}
        \cup {[dir |-> "safe", name |-> 2, node |-> n] : n \in {"ld", "f1", "none"}}
        \cup {[dir |-> "root", name |-> 1, node |-> "out"]}

Path(parts) == [rooted |-> TRUE, parts |-> parts]
Call(tool, path) == [tool |-> tool, path |-> path, depth |-> 0, query |-> <<97>>,
                     filter |-> "any", offset |-> 0, first |-> 0, length |-> 4]
Scenario(tree, f1, asked, m) ==
    [tree |-> tree, content |-> Content1(f1), call |-> asked, moves |-> m]

\* Every traversal of both trees, from both roots, one outside move at most.
Walks ==
    {Scenario(tree, Plain, [Call(tool, Path(path)) EXCEPT !.depth = depth, !.query = query,
                                                         !.filter = filter], m) :
        tree \in {Tree1, Tree2}, path \in {<<1>>, <<1, 2>>}, tool \in Walkers,
        depth \in 0..2, query \in {<<97>>, <<98>>}, filter \in {"any"}, m \in 0..1}
    \cup {Scenario(Tree2, Plain, [Call("find_paths", Path(<<1>>)) EXCEPT !.filter = filter,
                                                                      !.depth = 9], 0) :
        filter \in {"file", "directory"}}
    \cup {Scenario(Tree3, Plain, [Call("list_directory", Path(<<1>>)) EXCEPT !.depth = 9], 0)}
    \cup {Scenario(Tree2, Plain, [Call(tool, Path(<<1>>)) EXCEPT !.query = query], 0) :
        tool \in {"find_paths", "search_text"}, query \in {<<>>, <<47>>, <<10>>}}

\* Every reader and every kind of path.
Paths == {Path(p) : p \in {<<1>>, <<1, 1>>, <<1, 2>>, <<1, 2, 1>>, <<1, 2, 2>>, <<1, 2, 4>>, <<1, 2, 3, 1>>,
                           <<1, 4>>, <<1, 5>>, <<1, 1, 1>>, <<1, 3, 1>>, <<1, 0, 1>>,
                           <<1, 11, 3, 1>>, <<3, 1>>}}
         \cup {[rooted |-> FALSE, parts |-> <<1, 1>>]}
Reads ==
    {Scenario(Tree1, f1, Call(tool, path), 1) :
        f1 \in {Plain, Euro}, path \in Paths,
        tool \in Readers \cup Walkers \cup {"path_metadata", "sanitize"}}

\* Ranges of every content, from offsets and of lengths within and without bounds.
RangeReads ==
    {Scenario(Tree1, f1, [Call(tool, Path(<<1, 1>>)) EXCEPT
                          !.offset = offset, !.first = offset, !.length = length], m) :
        f1 \in Contents, tool \in {"read_text_range", "read_binary_range"},
        offset \in {0, 1, 2, 9}, length \in {1, 3, 4, 5, 6}, m \in {0, 2}}

MCScenarios == Walks \cup Reads \cup RangeReads
=============================================================================

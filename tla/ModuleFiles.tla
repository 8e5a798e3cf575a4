---------------------------- MODULE ModuleFiles ----------------------------
(***************************************************************************)
(* The files of a module on the page where it is edited: the tree of files *)
(* and the editor with its tabs (files-tree, files-tree.service and        *)
(* edit-file-modal of libs/features/modules) over the part of the store of *)
(* libs/store/modules/src/lib/edit that holds files.                       *)
(*                                                                         *)
(* A path is the sequence of its segments after name and version of the    *)
(* module; the content of a file is the stamp of its last edit.            *)
(***************************************************************************)
EXTENDS StoreKit

CONSTANTS Paths,         \* paths a file can have
          InitialFiles,  \* those there are at first
          Slices,        \* bound: sets of effects a behaviour follows, see StoreKit
          MaxOps         \* bound: operations of the user

VARIABLES store,         \* the store, see StoreKit
          ui,            \* the tabs of the editor, its wait for a save before it closes,
                         \* what the user lost; and the files of the server
          ops            \* history: operations so far

vars == <<store, ui, ops>>

Effects == {"fetchFiles", "load", "save", "patch"}

(***************************************************************************)
(* The tree.  Under a section there are the parts code, data and clibs.    *)
(***************************************************************************)
ModuleFolderSection == {"cmodule", "smodule", "bmodule"}

getFilesBySection(files, section) == {Tail(p) : p \in {q \in files : q[1] = section}}

StartsWith(p, part)  == Len(p) > 1 /\ p[1] = part

\* mutant: the code part shows the data, too
getCodeAndData(files) == {p \in files : ~StartsWith(p, "clibs")}

getCodeFiles(files) == {p \in files : ~StartsWith(p, "data") /\ ~StartsWith(p, "clibs")}

getDataFiles(files)  == {Tail(p) : p \in {q \in files : StartsWith(q, "data")}}
clibsFoldersWithSys  == {<<"linux", "amd64", "sys", "">>}     \* one of the five
geCLibsFiles(files)  == clibsFoldersWithSys \cup {Tail(p) : p \in {q \in files : StartsWith(q, "clibs")}}

Node(type, path, children) == [type |-> type, path |-> path, children |-> children]

\* Folders by their first segment, then the files that are left.
getTree(all, root) ==
    LET tree[at \in [files : SUBSET Seq(STRING), path : Seq(STRING)]] ==
            {Node("folder", Append(at.path, name),
                  tree[[files |-> {Tail(p) : p \in {q \in at.files : Len(q) > 1 /\ q[1] = name}},
                        path  |-> Append(at.path, name)]])
                : name \in {q[1] : q \in {q \in at.files : Len(q) > 1}}}
            \cup {Node("file", Append(at.path, p[1]), {}) : p \in {q \in at.files : Len(q) = 1 /\ q[1] # ""}}
    IN tree[[files |-> all, path |-> root]]

buildSectionTree(files, section, hideClibs) ==
    LET own == getFilesBySection(files, section)
    IN {Node("part", <<section>>, getTree(getCodeFiles(own), <<section>>)),
        Node("part", <<section, "data">>, getTree(getDataFiles(own), <<section, "data">>))}
       \cup (IF hideClibs THEN {}
             ELSE {Node("part", <<section, "clibs">>, getTree(geCLibsFiles(own), <<section, "clibs">>))})

buildTree(files, hideClibs) ==
    {Node("section", <<s>>, buildSectionTree(files, s, hideClibs)) : s \in ModuleFolderSection}

\* The nodes of a tree, level by level; no path is longer than Depth.
Depth == Max({Len(p) : p \in Paths \cup clibsFoldersWithSys}) + 1
Nodes(tree) ==
    LET level[n \in 0 .. Depth] == IF n = 0 THEN tree ELSE UNION {m.children : m \in level[n - 1]}
    IN UNION {level[k] : k \in 0 .. Depth}
Leaves(tree) == {n.path : n \in {m \in Nodes(tree) : m.type = "file"}}

\* The files a tree shows, each with the part it stands under.
Shown(tree) ==
    UNION {{<<part.path, p>> : p \in Leaves(part.children)} : part \in UNION {s.children : s \in tree}}

\* Whether a node may be deleted or moved is asked of paths that start with the
\* part, but the paths of nodes start with the section.  A part is a folder like
\* any other, and that of the code has the path of its section: with it go the
\* data and the libraries.
getIsStaticFiles(path) == path \in {<<"code", "main.lua">>, <<"code", "args.json">>, <<"code", "main.vue">>}
canDeleteFile(path)    == ~getIsStaticFiles(path)
canMoveFile(path)      == ~getIsStaticFiles(path)
getIsDefaultClibsFolders(path) ==
    \E p \in clibsFoldersWithSys, n \in 1..3 : path = <<"clibs">> \o SubSeq(p, 1, n)
canDeleteFolder(n) == n.type # "section" /\ ~getIsDefaultClibsFolders(n.path)
canMoveFolder(n)   == n.type # "section" /\ ~getIsDefaultClibsFolders(n.path)

(***************************************************************************)
(* The reducer.                                                            *)
(***************************************************************************)
InitialState ==
    [files |-> InitialFiles, filesContent |-> [p \in Paths |-> <<>>],
     loadFileErrors |-> {}, saveFilesErrors |-> {}, busy |-> {}, errors |-> {}]

Content(loaded, c) == <<[loaded |-> loaded, content |-> c]>>

FilesOK(s) ==
    /\ s.files \subseteq Paths /\ s.loadFileErrors \subseteq Paths /\ s.saveFilesErrors \subseteq Paths
    /\ s.busy \subseteq Effects
    /\ \A p \in Paths : s.filesContent[p] = <<>> \/ s.filesContent[p][1].content \in 0..MaxOps

reduceFetchFiles(s, step, files) ==
    LET t == ReduceFlag(s, "fetchFiles", step)
    IN CASE step = "success" -> [t EXCEPT !.files = files]
         [] step = "failure" -> [t EXCEPT !.errors = {"fetchFiles"}]
         [] OTHER            -> t

\* Of two entries for one path the later one counts.
PutContents(contents, put) ==
    [p \in Paths |-> IF \E i \in DOMAIN put : put[i].path = p
                     THEN Content(TRUE, put[SelectLastInSeq(put, LAMBDA f : f.path = p)].content)
                     ELSE contents[p]]
PathsOf(put) == {put[i].path : i \in DOMAIN put}

loadFiles(s, paths) ==
    [Flag(s, "load") EXCEPT !.filesContent = [p \in Paths |-> IF p \in paths THEN Content(FALSE, 0) ELSE @[p]]]
loadFilesSuccess(s, put) ==
    [Unflag(s, "load") EXCEPT !.loadFileErrors = @ \ PathsOf(put), !.filesContent = PutContents(@, put)]
loadFilesFailure(s, bad) == [Unflag(s, "load") EXCEPT !.loadFileErrors = @ \cup PathsOf(bad)]

saveFiles(s) == Flag(s, "save")
saveFilesSuccess(s, put) ==
    [Unflag(s, "save") EXCEPT !.saveFilesErrors = @ \ PathsOf(put), !.filesContent = PutContents(@, put)]
saveFilesFailure(s, bad) == [Unflag(s, "save") EXCEPT !.saveFilesErrors = @ \cup PathsOf(bad)]

closeFiles(s, p) == [s EXCEPT !.filesContent[p] = <<>>]
resetFile(s) ==
    [s EXCEPT !.busy = @ \ {"load", "save"}, !.filesContent = [p \in Paths |-> <<>>],
              !.loadFileErrors = {}, !.saveFilesErrors = {}]

(***************************************************************************)
(* The editor.                                                             *)
(***************************************************************************)
Open   == {p \in Paths : ui.tabs[p] # <<>>}
IsLoaded(s, p) == s.filesContent[p] # <<>> /\ s.filesContent[p][1].loaded

\* mutant: a file that was saved once does not count as changed
ChangedUntilSaved(s, tabs, p) ==
    tabs[p] # <<>> /\ IsLoaded(s, p) /\ s.filesContent[p][1].content = 0 /\ tabs[p][1] # 0

\* A tab counts as changed when its file is loaded and differs from the tab.
Changed(s, tabs, p) ==
    tabs[p] # <<>> /\ IsLoaded(s, p) /\ s.filesContent[p][1].content # tabs[p][1]

\* mutant: while a file loads, no tab counts as changed
changedTabsIdle == IF "load" \in store.st.busy THEN {} ELSE {p \in Paths : Changed(store.st, ui.tabs, p)}

changedTabs == {p \in Paths : Changed(store.st, ui.tabs, p)}

\* What the user typed and the server does not have.
Unsaved(server, tabs, p) == tabs[p] # <<>> /\ tabs[p][1] # 0 /\ server[p] # tabs[p]

Lose(u, paths) == [u EXCEPT !.lost = @ \cup {p \in paths : Unsaved(u.server, u.tabs, p)}]

\* Subscriptions of the editor: contents that have come go into their tabs,
\* tabs whose files could not be loaded go away.
OnContents(old, s, u) ==
    LET come == {p \in Paths : u.tabs[p] # <<>> /\ ~IsLoaded(old, p) /\ IsLoaded(s, p)}
    IN [u EXCEPT !.tabs = [p \in Paths |-> IF p \in come THEN <<s.filesContent[p][1].content>> ELSE @[p]]]
OnLoadErrors(s, u) ==
    [u EXCEPT !.tabs = [p \in Paths |-> IF p \in s.loadFileErrors THEN <<>> ELSE @[p]]]

Editor(old, s, u) == OnContents(old, s, OnLoadErrors(s, u))

Do(x, u)   == store' = x /\ ui' = u
Step(x, u) == ops < MaxOps /\ ops' = ops + 1 /\ Do(x, u)

\* mergeMap: every request to load stays under way.  It may be answered by
\* what the server had when it was sent.
RequestLoad(x, paths) ==
    [x EXCEPT !.st = loadFiles(x.st, PathsOf(paths)),
              !.http["load"] = Append(@, [paths |-> paths, had |-> ui.server])]

ToSave(tabs, paths) == [i \in DOMAIN paths |-> [path |-> paths[i], content |-> tabs[paths[i]][1]]]

\* switchMap: a save under way is given up, done or not.
RequestSave(x, files) ==
    LET y == Request(x, saveFiles(x.st), "save", files)
    IN IF UnderWay(x, "save") THEN Excuse(y, "save") ELSE y
GivenUp(server, done) ==
    IF UnderWay(store, "save") /\ done
    THEN [p \in Paths |-> IF p \in PathsOf(store.http["save"][1])
                          THEN <<store.http["save"][1][SelectLastInSeq(store.http["save"][1], LAMBDA f : f.path = p)].content>>
                          ELSE server[p]]
    ELSE server

openFile ==
    /\ Follows(store, "load")
    /\ \E p \in store.st.files \ Open :
         Step(RequestLoad(store, <<[path |-> p]>>), [ui EXCEPT !.open = TRUE, !.tabs[p] = <<0>>])

\* The user types in the tab of a file.  Nothing stops that while the editor
\* waits for a save before it closes: what is typed then goes with it.
Type ==
    \E p \in Open : Step(IF ui.closing THEN Excuse(store, "save") ELSE store,
                         [ui EXCEPT !.tabs[p] = <<ops + 1>>])

\* The key asks for no more than a tab; the button wants the file loaded.
saveFileInTab ==
    /\ Follows(store, "save")
    /\ \E p \in Open, done \in BOOLEAN :
         Step(RequestSave(store, ToSave(ui.tabs, <<p>>)), [ui EXCEPT !.server = GivenUp(@, done)])

\* A changed tab is closed after the user has been asked.
closeTab ==
    \E p \in Open : Step(Reduced(store, closeFiles(store.st, p)), [ui EXCEPT !.tabs[p] = <<>>])

\* All tabs are loaded again: what was typed is given up.
synchronize ==
    /\ Open # {} /\ Follows(store, "load")
    /\ Step(RequestLoad(store, [i \in DOMAIN SetToSeq(Open) |-> [path |-> SetToSeq(Open)[i]]]), ui)

Close(x, u) ==
    <<Reduced(x, resetFile(x.st)), [u EXCEPT !.open = FALSE, !.closing = FALSE, !.tabs = [p \in Paths |-> <<>>]]>>

\* The editor is closed: without changed tabs at once, or the user gives them
\* up, or they are saved first.
CancelModal ==
    /\ ui.open
    /\ \/ /\ changedTabs = {}
          /\ LET c == Close(store, Lose(ui, Open \cap {p \in Paths : IsLoaded(store.st, p)})) IN Step(c[1], c[2])
       \/ changedTabs # {} /\ LET c == Close(store, ui) IN Step(c[1], c[2])
       \/ /\ changedTabs # {} /\ Follows(store, "save")
          /\ \E done \in BOOLEAN :
               Step(RequestSave(store, ToSave(ui.tabs, SetToSeq(changedTabs))),
                    [ui EXCEPT !.closing = TRUE, !.server = GivenUp(@, done)])

\* The tree: a file is created or uploaded, a file or a folder is deleted or
\* moved.  These requests do not wait for one another.
Patching == ops < MaxOps /\ Follows(store, "patch")
Patch(p) == Patching /\ Step([store EXCEPT !.http["patch"] = Append(@, p)], ui)

Under(files, path) == {p \in files : IsPrefix(path, p)}

\* Where a move takes a file under the path it moves.
Dest(r, p) == r.newpath \o SubSeq(p, Len(r.path) + 1, Len(p))

\* What the tree shows.  Folders that hold no file are left out: the server
\* finds nothing there to delete or to move.
Objects == {n \in Nodes(buildTree(store.st.files, FALSE)) : Under(store.st.files, n.path) # {}}

createFile == \E p \in Paths \ store.st.files : Patch([action |-> "save", path |-> p, newpath |-> p])
deleteObject ==
    Patching /\ \E n \in Objects :
        /\ IF n.type = "file" THEN canDeleteFile(n.path) ELSE canDeleteFolder(n)
        /\ Patch([action |-> "remove", path |-> n.path, newpath |-> n.path])

\* The new path is typed; it is one that leads to Paths.
NewPaths(n) ==
    IF n.type = "file" THEN Paths \ store.st.files
    ELSE {q \in {Front(p) : p \in Paths} \ {n.path} :
              \A p \in Under(Paths, n.path) : Dest([path |-> n.path, newpath |-> q], p) \in Paths}
moveObject ==
    Patching /\ \E n \in Objects :
        /\ IF n.type = "file" THEN canMoveFile(n.path) ELSE canMoveFolder(n)
        /\ \E q \in NewPaths(n) : Patch([action |-> "move", path |-> n.path, newpath |-> q])

(***************************************************************************)
(* Answers.                                                                *)
(***************************************************************************)
Stored(server) == {p \in Paths : server[p] # <<>>}

fetchFiles(x) == Request(x, reduceFetchFiles(x.st, "start", {}), "fetchFiles", None)

AnswerFetchFiles(ok) ==
    /\ UnderWay(store, "fetchFiles")
    /\ LET x == Done(store, "fetchFiles", reduceFetchFiles(store.st, IF ok THEN "success" ELSE "failure",
                                                           Stored(ui.server)))
       IN Do(IF ok THEN Settle(x, "fetchFiles") ELSE Excuse(x, "fetchFiles"), ui)
    /\ UNCHANGED ops

\* PatchModuleVersionFile.  The files a request concerns: one that is written,
\* or all that are stored under a path.
Concerned(server, r) == IF r.action = "save" THEN {r.path} ELSE Under(Stored(server), r.path)

\* Rename does not write over a file, and there must be something to act on.
Movable(server, r, p) == r.action = "move" => Dest(r, p) \notin Stored(server)
Possible(server, r) ==
    Concerned(server, r) # {} /\ \A p \in Concerned(server, r) : Movable(server, r, p)

\* The server once the request is through with the files of done and has
\* copied, but not removed, those of left.
Patched(server, r, done, left) ==
    LET To(p) == {f \in done \cup left : Dest(r, f) = p}
    IN [p \in Paths |->
          CASE r.action = "save" /\ p \in done   -> <<0>>
            [] r.action = "remove" /\ p \in done -> <<>>
            [] r.action = "move" /\ To(p) # {}   -> server[CHOOSE f \in To(p) : TRUE]
            [] r.action = "move" /\ To(p) = {} /\ p \in done -> <<>>
            [] OTHER                             -> server[p]]

\* An error may follow when some of the files are done, when a file has been
\* copied and not removed, or when all are done and last_update is not written.
Partly(server, r) ==
    LET able == {p \in Concerned(server, r) : Movable(server, r, p)}
    IN {Patched(server, r, done, {}) : done \in SUBSET able}
       \cup (IF r.action # "move" THEN {}
             ELSE UNION {{Patched(server, r, able \ rest, {p}) : p \in rest} : rest \in SUBSET able})

\* After a success the files are fetched, and the updates in policies, which see
\* in ModuleEditStore.  After an error the page shows a toast and fetches
\* nothing: if the server has changed all the same, the tree is behind until
\* the next patch succeeds.
AnswerPatch(ok) ==
    /\ UnderWay(store, "patch")
    /\ \E i \in DOMAIN store.http["patch"] :
         LET r == store.http["patch"][i]
             x == [store EXCEPT !.http["patch"] = RemoveAt(@, i)]
         IN IF ok
            THEN /\ Possible(ui.server, r)
                 /\ Do(Settle(fetchFiles(x), "patch"),
                       [ui EXCEPT !.server = Patched(@, r, Concerned(@, r), {})])
            ELSE \E after \in Partly(ui.server, r) :
                     Do(IF after = ui.server THEN x ELSE Excuse(x, "patch"), [ui EXCEPT !.server = after])
    /\ UNCHANGED ops

\* forkJoin waits for all files of a request.  The contents that came and the
\* errors are each counted anew, so that behind a failure a content goes to
\* the path of the file before it.
AnswerLoad ==
    /\ UnderWay(store, "load")
    /\ \E i \in DOMAIN store.http["load"] :
       LET r == store.http["load"][i] IN
       \E bad \in SUBSET DOMAIN r.paths, early \in BOOLEAN :
         LET from  == IF early THEN r.had ELSE ui.server
             fails == {j \in DOMAIN r.paths : j \in bad \/ from[r.paths[j].path] = <<>>}
             good  == SetToSortSeq(DOMAIN r.paths \ fails, <)
             put   == [j \in DOMAIN good |-> [path |-> r.paths[j].path, content |-> from[r.paths[good[j]].path][1]]]
             err   == [j \in 1..Cardinality(fails) |-> r.paths[j]]
             s1    == loadFilesSuccess(store.st, put)
             u1    == Editor(store.st, s1, ui)
             s2    == IF fails = {} THEN s1 ELSE loadFilesFailure(s1, err)
             u2    == IF fails = {} THEN u1 ELSE OnLoadErrors(s2, u1)
             x     == [store EXCEPT !.st = s2, !.http["load"] = RemoveAt(@, i)]
             stale == \E j \in DOMAIN put : <<put[j].content>> # ui.server[put[j].path]
         IN Do(IF stale \/ fails # {} THEN Excuse(x, "load") ELSE x, u2)
    /\ UNCHANGED ops

\* The saves of a request, some of which fail: all files are taken for saved
\* before the errors follow.  An editor that waits to close has closed by then.
\* The file of a save that failed may have been written, see Partly.
AnswerSave ==
    /\ UnderWay(store, "save")
    /\ \E bad \in SUBSET DOMAIN store.http["save"][1] : \E written \in SUBSET bad :
         LET files  == store.http["save"][1]
             good   == {files[i].path : i \in (DOMAIN files \ bad) \cup written}
             server == [p \in Paths |-> IF p \in good THEN <<files[SelectLastInSeq(files, LAMBDA f : f.path = p)].content>>
                                        ELSE ui.server[p]]
             err    == [j \in 1..Cardinality(bad) |-> files[j]]
             s1     == saveFilesSuccess(store.st, files)
             u1     == Editor(store.st, s1, [ui EXCEPT !.server = server])
             x1     == Done(store, "save", s1)
             c      == IF ui.closing /\ "save" \in store.st.busy /\ s1.saveFilesErrors = {}
                       THEN Close(x1, Lose(u1, Open)) ELSE <<x1, u1>>
             x2     == IF bad = {} THEN c[1] ELSE Excuse(Reduced(c[1], saveFilesFailure(c[1].st, err)), "save")
         IN Do(x2, [c[2] EXCEPT !.closing = FALSE])
    /\ UNCHANGED ops

Init ==
    /\ \E slice \in Slices : store = NewStore(InitialState, slice)
    /\ ui = [open |-> FALSE, tabs |-> [p \in Paths |-> <<>>], closing |-> FALSE, lost |-> {},
             server |-> [p \in Paths |-> IF p \in InitialFiles THEN <<0>> ELSE <<>>]]
    /\ ops = 0

Next ==
    \/ openFile \/ Type \/ saveFileInTab \/ closeTab \/ synchronize \/ CancelModal
    \/ createFile \/ deleteObject \/ moveObject
    \/ (\E ok \in BOOLEAN : AnswerFetchFiles(ok) \/ AnswerPatch(ok)) \/ AnswerLoad \/ AnswerSave

Spec == Init /\ [][Next]_vars

----------------------------------------------------------------------------
TypeOK == FilesOK(store.st) /\ ops \in 0..MaxOps

\* A tab that is shown as unchanged holds what the server has, unless a
\* request failed, a save was given up for another one, or a file was
\* read before it was saved.
UnchangedIsSaved ==
    (Follows(store, "save") /\ ~Follows(store, "patch") /\ Quiet(store) /\ store.log = {})
        => \A p \in Open : IsLoaded(store.st, p) /\ ~Changed(store.st, ui.tabs, p) => ui.server[p] = ui.tabs[p]

\* Closing the editor loses nothing that was typed, unless the user says so or
\* goes on typing, a request failed or a save was given up.
NothingLost == (~Follows(store, "patch") /\ store.log = {}) => ui.lost = {}

\* Once nothing is under way the tree has the files of the server, each once,
\* unless the last fetch failed, or a patch that was answered with an error has
\* changed the server and none has succeeded since.
TreeSettled ==
    (Quiet(store) /\ {"fetchFiles", "patch"} \cap store.log = {})
        => /\ store.st.files = Stored(ui.server)
           /\ LET shown == Shown(buildTree(store.st.files, FALSE))
              IN {e[2] : e \in shown} = store.st.files /\ Cardinality(shown) = Cardinality(store.st.files)

\* A flag that shows a spinner or disables a button goes with a request.
BusyPending == \A f \in store.st.busy : Pending(store, f)
=============================================================================

----------------------------- MODULE FileBrowser -----------------------------
(* The windows of dir_manage_gtk: what the user sees (the path entry, the    *)
(* list of a directory, the selected row, the favourites), the dialogs that  *)
(* make requests, and the timers that refresh the windows when an answer     *)
(* arrives (ui_cd.c, ui_manage.c, ui_link.c, communication.c).               *)
(*                                                                           *)
(* The two processes and their queues are module FileManager and the steps   *)
(* of a file operation module BackendOps; here requests and answers are two  *)
(* sequences and an operation is one step.                                   *)
EXTENDS Naturals, Sequences, SequencesExt, Maps, Trees

CONSTANTS
    Trees,          \* the directory trees the program may start on
    Start,          \* start_path
    Sessions,       \* what may happen in a session, see below
    Names,          \* names a file may have
    NewNames,       \* names the user may give in a rename
    Ops,            \* message types the user issues
    MaxClicks       \* bound: refreshes that clicks on favourites leave pending

ASSUME OpsAssumption == Ops \subseteq 2..8
ASSUME BoundsAssumption == MaxClicks \in Nat

NoName == ""
NoList == <<NoName>>    \* no path: nothing is listed
ASSUME NamesAssumption == NoName \notin Names /\ "New Folder0" \in Names

\* A path is a sequence of names; no entry of the disk has an empty one.
Text == Names \cup {NoName}
Path == Seq(Text)
IsTree(t) ==
    \A p \in DOMAIN t : p \in Path /\ t[p] \in {"dir", "file"} /\ (p # <<>> => Last(p) # NoName)
AreLinks(f) == \A n \in DOMAIN f : n \in Text /\ f[n] \in Path

ASSUME PathsAssumption ==
    /\ \A t \in Trees : IsTree(t)
    /\ Start \in Path /\ NewNames \subseteq Names

\* The contents of /tmp/link at the start, the paths the user may type, a bound
\* for the requests, and whether an operation may stop half-way.
ASSUME SessionsAssumption ==
    \A s \in Sessions :
        /\ DOMAIN s = {"favourites", "texts", "maxRequests", "halves"}
        /\ AreLinks(s.favourites) /\ s.texts \subseteq Path
        /\ s.maxRequests \in Nat /\ s.halves \in BOOLEAN

VARIABLES
    session,    \* one of Sessions
    fs,         \* the disk: from paths to "dir" or "file"
    links,      \* /tmp/link: from names to paths
    entry,      \* the text of path_entry
    listed,     \* the directory of directorylist
    rows,       \* its entries, as they were loaded: from names to kinds
    attrs,      \* the list asks for standard::type
    highlight,  \* the row that the list shows as selected
    info,       \* the name in selected_file_info
    dialog,     \* the open dialog
    favs,       \* the favourites on display: from names to paths
    polling,    \* the timer of start_backend_check runs
    timers,     \* the one-shot timers that are pending
    requests,   \* sent and not yet carried out
    answers,    \* not yet read
    issued,     \* ghost: number of requests so far
    astray      \* ghost: the text has been edited, or a favourite led nowhere

disk == <<fs, links>>
view == <<entry, listed, rows, attrs, highlight, astray>>
channel == <<requests, answers, issued>>
vars == <<session, disk, view, info, dialog, favs, polling, timers, channel>>

Delete == 2
Mkdir == 3
Rename == 4
Move == 5
Copy == 6
Chmod == 7
Symlink == 8
Dialogs == {Delete, Rename, Move, Copy, Chmod}

NoDialog == [op |-> 0, file |-> NoList, shown |-> NoList]

IsDir(p) == p \in DOMAIN fs /\ fs[p] = "dir"
Listing(p) == [n \in {Last(q) : q \in {r \in DOMAIN fs : r # <<>> /\ Front(r) = p}} |-> fs[Append(p, n)]]
Empty == [n \in {} |-> ""]

-----------------------------------------------------------------------------
(* The widgets (external): GTK 4 *)

\* The list shows the entries r.  The selection model keeps its row if it is
\* still there and else picks another one of its own; either way it emits no
\* selection-changed.
Displays(r) ==
    /\ rows' = r
    /\ highlight' \in IF highlight \in DOMAIN r THEN {highlight}
                      ELSE IF DOMAIN r = {} THEN {NoName} ELSE DOMAIN r

\* gtk_directory_list_set_file: every row is new.
Lists(p) ==
    /\ listed' = p
    /\ rows' = IF IsDir(p) THEN Listing(p) ELSE Empty
    /\ highlight' \in IF DOMAIN rows' = {} THEN {NoName} ELSE DOMAIN rows'

\* GtkDirectoryList watches its directory.
Monitored ==
    /\ IsDir(listed)
    /\ rows # Listing(listed)
    /\ Displays(Listing(listed))
    /\ UNCHANGED <<disk, entry, listed, attrs, astray, info, dialog, favs, polling, timers, channel>>

Init ==
    /\ session \in Sessions
    /\ fs \in Trees /\ links = session.favourites
    /\ entry = Start /\ listed = Start
    /\ rows = Listing(Start)
    /\ highlight \in IF DOMAIN rows = {} THEN {NoName} ELSE DOMAIN rows
    /\ attrs = FALSE
    /\ info = NoName /\ dialog = NoDialog
    /\ favs = links
    /\ polling = FALSE
    /\ timers = [update |-> 0, ui |-> 0, favourites |-> 0]
    /\ requests = <<>> /\ answers = <<>> /\ issued = 0
    /\ astray = FALSE

-----------------------------------------------------------------------------
(* Navigation.  All dialogs are modal: the windows react only without one. *)

Free == dialog = NoDialog

TypePath(t) ==
    /\ Free /\ t # entry
    /\ entry' = t
    /\ astray' = TRUE
    /\ UNCHANGED <<disk, listed, rows, attrs, highlight, info, dialog, favs, polling, timers, channel>>

\* The load button: nothing happens unless the text is a directory.
UpdateDirectory ==
    /\ Free
    /\ IsDir(entry)
    /\ Lists(entry)
    /\ astray' = FALSE
    /\ UNCHANGED <<disk, entry, attrs, info, dialog, favs, polling, timers, channel>>

GoesTo(p) ==
    /\ Lists(p)
    /\ entry' = p
    /\ astray' = FALSE
    /\ UNCHANGED <<disk, attrs, info, dialog, favs, polling, timers, channel>>

UpperDirectory == Free /\ entry # <<>> /\ GoesTo(Front(entry))

\* Mutant: the text is not brought up to date.
OnColumnviewActivateTextless ==
    /\ Free
    /\ highlight # NoName /\ attrs /\ rows[highlight] = "dir"
    /\ Lists(Append(entry, highlight))
    /\ UNCHANGED <<disk, entry, attrs, info, dialog, favs, polling, timers, channel, astray>>

\* A double click on the selected row: the new directory is built from the
\* text.  The type of a row is unknown until update_ui has asked for it.
OnColumnviewActivate ==
    /\ Free
    /\ highlight # NoName /\ attrs /\ rows[highlight] = "dir"
    /\ GoesTo(Append(entry, highlight))

\* Mutant: the signal does not look whether a dialog is open.
OnSelectionChangedAnytime(n) ==
    /\ n \in DOMAIN rows \ {highlight}
    /\ highlight' = n
    /\ info' = n
    /\ UNCHANGED <<disk, entry, listed, rows, attrs, astray, dialog, favs, polling, timers, channel>>

\* A click on another row than the selected one.
OnSelectionChanged(n) ==
    /\ Free
    /\ n \in DOMAIN rows \ {highlight}
    /\ highlight' = n
    /\ info' = n
    /\ UNCHANGED <<disk, entry, listed, rows, attrs, astray, dialog, favs, polling, timers, channel>>

-----------------------------------------------------------------------------
(* Requests *)

File == Append(entry, info)         \* g_build_filename(current_path, file_name)
Shown == Append(listed, highlight)  \* ghost: the file that looks selected

Sends(op, src, dest, shown) ==
    /\ issued < session.maxRequests
    /\ requests' = Append(requests, [op |-> op, src |-> src, dest |-> dest, shown |-> shown])
    /\ issued' = issued + 1
    /\ UNCHANGED answers

OnNewDirectoryAction ==
    /\ Free /\ Mkdir \in Ops
    /\ Sends(Mkdir, entry, <<>>, listed)
    /\ polling' = TRUE
    /\ UNCHANGED <<disk, view, info, dialog, favs, timers>>

\* Mutant: start_backend_check is forgotten.
OnAddToFavoritesActionUnread ==
    /\ Free /\ Symlink \in Ops
    /\ info # NoName
    /\ Sends(Symlink, File, <<info>>, Shown)
    /\ UNCHANGED <<disk, view, info, dialog, favs, polling, timers>>

\* The link is named like the file.
OnAddToFavoritesAction ==
    /\ Free /\ Symlink \in Ops
    /\ info # NoName
    /\ Sends(Symlink, File, <<info>>, Shown)
    /\ polling' = TRUE
    /\ UNCHANGED <<disk, view, info, dialog, favs, timers>>

\* The menu offers an operation on a file once one has been selected; chmod
\* asks for its permissions, so it has to exist.
OpenDialog(op) ==
    /\ Free /\ op \in Ops \cap Dialogs
    /\ issued < session.maxRequests
    /\ info # NoName
    /\ op = Chmod => File \in DOMAIN fs
    /\ dialog' = [op |-> op, file |-> File, shown |-> Shown]
    /\ UNCHANGED <<disk, view, info, favs, polling, timers, channel>>

\* What the request will be about: chmod keeps the path the dialog was opened
\* for, the others build it from what text and selection are at the response.
Source == IF dialog.op = Chmod THEN dialog.file ELSE File

Destinations ==
    CASE dialog.op = Rename -> {Append(entry, n) : n \in NewNames}
      [] dialog.op \in {Move, Copy} -> {Append(t, info) : t \in session.texts}
      [] OTHER -> {<<>>}

Respond ==
    /\ ~Free
    /\ \E dest \in Destinations : Sends(dialog.op, Source, dest, dialog.shown)
    /\ polling' = TRUE
    /\ dialog' = NoDialog
    /\ UNCHANGED <<disk, view, info, favs, timers>>

\* Cancelled; or the input is empty or no mode, and the handler returns early.
Dismiss ==
    /\ ~Free
    /\ dialog' = NoDialog
    /\ polling' \in {polling, TRUE}
    /\ dialog.op = Delete => polling'
    /\ UNCHANGED <<disk, view, info, favs, timers, channel>>

-----------------------------------------------------------------------------
(* The backend, one operation at a time (see FileManager and BackendOps) *)

Folder(r) == Append(r.src, "New Folder0")

\* The operation can be carried out.  (A rename onto another entry, a move
\* into itself and the like are left to BackendOps; here they fail.)
Possible(r) ==
    IF r.op = Mkdir THEN IsDir(r.src) /\ Folder(r) \notin DOMAIN fs
    ELSE IF r.op = Symlink THEN TRUE
    ELSE /\ r.src \in DOMAIN fs
         /\ r.op \in {Rename, Move, Copy} =>
               r.dest \notin DOMAIN fs /\ IsDir(Front(r.dest)) /\ ~IsPrefix(r.src, r.dest)

Gone(r) == IF r.op \in {Delete, Rename, Move} THEN Below(fs, r.src) ELSE {}
Come(r) ==
    IF r.op \in {Rename, Move, Copy}
    THEN [p \in {Rebased(q, r.src, r.dest) : q \in Below(fs, r.src)} |-> fs[Rebased(p, r.dest, r.src)]]
    ELSE IF r.op = Mkdir THEN [p \in {Folder(r)} |-> "dir"] ELSE Empty

Answers(text) == requests' = Tail(requests) /\ answers' = Append(answers, text)

Serve ==
    /\ requests # <<>>
    /\ LET r == Head(requests) IN
       \/ /\ Possible(r)
          /\ fs' = Over(Come(r), [p \in DOMAIN fs \ Gone(r) |-> fs[p]])
          /\ links' = IF r.op = Symlink THEN Put(links, r.dest[1], r.src) ELSE links
          /\ Answers("success")
       \/ /\ ~Possible(r)
          /\ IF r.op \in {Delete, Mkdir, Rename}
             THEN requests' = Tail(requests) /\ UNCHANGED answers ELSE Answers("failed")
          /\ UNCHANGED disk
    /\ UNCHANGED <<view, info, dialog, favs, polling, timers, issued>>

\* An operation fails with part of its work done.
ServeHalf ==
    /\ session.halves
    /\ requests # <<>>
    /\ LET r == Head(requests) IN
       \/ r.op = Symlink /\ links' = [n \in DOMAIN links \ {r.dest[1]} |-> links[n]] /\ UNCHANGED fs
       \/ r.op \in {Move, Copy} /\ Possible(r) /\ fs' = Put(fs, r.dest, fs[r.src]) /\ UNCHANGED links
    /\ Answers("failed")
    /\ UNCHANGED <<view, info, dialog, favs, polling, timers, issued>>

-----------------------------------------------------------------------------
(* The timers of the main loop *)

\* Mutant: nobody refreshes the favourites.
ReadBackendMessageListOnly ==
    /\ polling /\ answers # <<>>
    /\ answers' = Tail(answers)
    /\ timers' = IF Head(answers) = "success" THEN [timers EXCEPT !.update = @ + 1] ELSE timers
    /\ UNCHANGED <<disk, view, info, dialog, favs, polling, requests, issued>>

\* read_backend_message and on_backend_message_received.
ReadBackendMessage ==
    /\ polling /\ answers # <<>>
    /\ answers' = Tail(answers)
    /\ timers' = IF Head(answers) = "success"
                 THEN [timers EXCEPT !.update = @ + 1, !.favourites = @ + 1] ELSE timers
    /\ UNCHANGED <<disk, view, info, dialog, favs, polling, requests, issued>>

\* update: when the text is a directory the list is emptied, and update_ui
\* comes 100 ms later.  t are the timers without the one that has fired.
Update(t) ==
    IF IsDir(entry')
    THEN Lists(NoList) /\ timers' = [t EXCEPT !.ui = @ + 1]
    ELSE timers' = t /\ UNCHANGED <<listed, rows, highlight>>

\* Mutant: the timer repeats (returns TRUE).
UpdateRepeats ==
    /\ timers.update > 0
    /\ UNCHANGED entry
    /\ Update(timers)
    /\ UNCHANGED <<disk, attrs, astray, info, dialog, favs, polling, channel>>

UpdateFires ==
    /\ timers.update > 0
    /\ UNCHANGED entry
    /\ Update([timers EXCEPT !.update = @ - 1])
    /\ UNCHANGED <<disk, attrs, astray, info, dialog, favs, polling, channel>>

\* Mutant: update_ui too gives up when the text is no directory.
UpdateUiChecked ==
    /\ timers.ui > 0
    /\ timers' = [timers EXCEPT !.ui = @ - 1]
    /\ attrs' = TRUE
    /\ IF IsDir(entry) THEN Lists(entry) ELSE UNCHANGED <<listed, rows, highlight>>
    /\ UNCHANGED <<disk, entry, astray, info, dialog, favs, polling, channel>>

\* The text may have changed since; it is not tested again.
UpdateUi ==
    /\ timers.ui > 0
    /\ timers' = [timers EXCEPT !.ui = @ - 1]
    /\ attrs' = TRUE
    /\ Lists(entry)
    /\ UNCHANGED <<disk, entry, astray, info, dialog, favs, polling, channel>>

\* The function is void, called as one that says whether to go on: the timer
\* may repeat or not.
UpdateFavoritesList ==
    /\ timers.favourites > 0
    /\ favs' = links
    /\ timers' \in {timers, [timers EXCEPT !.favourites = @ - 1]}
    /\ UNCHANGED <<disk, view, info, dialog, polling, channel>>

\* A click on a favourite: to the directory its target is in, as it was when
\* the list was made, by way of update.
OnFavoritesRowActivated(n) ==
    /\ Free
    /\ timers.ui < MaxClicks
    /\ n \in DOMAIN favs
    /\ entry' = Front(favs[n])
    /\ Update(timers)
    /\ astray' = ~IsDir(entry')
    /\ UNCHANGED <<disk, attrs, info, dialog, favs, polling, channel>>

-----------------------------------------------------------------------------
Navigation ==
    \/ UpdateDirectory \/ UpperDirectory \/ OnColumnviewActivate
    \/ \E t \in session.texts : TypePath(t)
    \/ \E n \in DOMAIN rows : OnSelectionChanged(n)
    \/ \E n \in DOMAIN favs : OnFavoritesRowActivated(n)

Requesting ==
    \/ OnNewDirectoryAction \/ OnAddToFavoritesAction
    \/ \E op \in Dialogs : OpenDialog(op)
    \/ Respond \/ Dismiss

Firing == ReadBackendMessage \/ UpdateFires \/ UpdateUi \/ UpdateFavoritesList

Next == UNCHANGED session /\ (Navigation \/ Requesting \/ Firing \/ Serve \/ ServeHalf \/ Monitored)

Spec == Init /\ [][Next]_vars

\* The backend works and the timers of the main loop fire.  Nothing is assumed
\* of the user, of failures or of GTK's own watching.
FairSpec ==
    /\ Spec
    /\ WF_vars(UNCHANGED session /\ Serve)
    /\ WF_vars(UNCHANGED session /\ ReadBackendMessage)
    /\ WF_vars(UNCHANGED session /\ UpdateFires)
    /\ WF_vars(UNCHANGED session /\ UpdateUi)
    /\ WF_vars(UNCHANGED session /\ UpdateFavoritesList)

-----------------------------------------------------------------------------
(* Type invariant *)

\* Every variable has its type; a refresh is scheduled at most once for every
\* success and every click on a favourite (communication.c:87, 90, 51).
TypeOK ==
    /\ session \in Sessions
    /\ IsTree(fs) /\ AreLinks(links) /\ AreLinks(favs)
    /\ entry \in Path /\ listed \in Path
    /\ DOMAIN rows = {} <=> highlight = NoName
    /\ highlight # NoName => highlight \in DOMAIN rows
    /\ attrs \in BOOLEAN /\ polling \in BOOLEAN /\ astray \in BOOLEAN
    /\ dialog.op \in {0} \cup (Ops \cap Dialogs)
    /\ dialog # NoDialog => info # NoName
    /\ issued \in 0..session.maxRequests
    /\ timers \in [update : 0..issued, ui : 0..(issued + MaxClicks), favourites : 0..issued]
    /\ timers.update + Len(answers) + Len(requests) <= issued

-----------------------------------------------------------------------------
(* Safety *)

\* A dialog acts on the file it was opened for, although most of them ask text
\* and selection again when the user answers and the timers go on meanwhile
\* (ui_manage.c:72-109, 148-165, ui_cd.c:120-154, 203-237; GTK_DIALOG_MODAL).
DialogKeepsItsFile == dialog # NoDialog => Source = dialog.file

\* Until the user edits the text, or clicks a favourite whose directory is
\* gone, the text names the directory that is listed: requests go where the
\* user looks (ui_cd.c:29, 69, communication.c:58-77).
TextNamesList == ~astray => listed \in {entry, NoList}

\* When every request has been carried out, every answer read and every timer
\* has fired, the windows show what is on the disk: whatever succeeded while
\* the user went elsewhere is not missed (communication.c:80-95).  What an
\* operation has changed before it failed may be.
Idle == requests = <<>> /\ answers = <<>> /\ timers.update = 0 /\ timers.ui = 0

IdleShowsDisk ==
    Idle /\ ~session.halves =>
        /\ timers.favourites = 0 => favs = links
        /\ ~astray /\ IsDir(entry) => listed = entry /\ rows = Listing(entry)

\* Somebody reads the answers of whatever has been asked for
\* (communication.c:127-134, called by every handler that sends).
AnswersAreRead == requests # <<>> \/ answers # <<>> => polling

-----------------------------------------------------------------------------
(* Liveness, under FairSpec *)

\* A list that has been emptied for a refresh is filled again
\* (communication.c:50-51).
ListComesBack == listed = NoList ~> listed # NoList

-----------------------------------------------------------------------------
(* What the comments say and the code does not do *)

\* ui_manage.c:91, ui_cd.c:134, 217: a request on a file carries the whole path
\* of that file, the one the user sees selected.
RequestsNameSelected ==
    \A i \in DOMAIN requests :
        requests[i].op # Mkdir => requests[i].src = requests[i].shown

=============================================================================

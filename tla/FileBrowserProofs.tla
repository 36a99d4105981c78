-------------------------- MODULE FileBrowserProofs --------------------------
(* Theorems about the windows, for every tree, every name, every set of      *)
(* requests, and any number of them: what the dialogs act on, what the text  *)
(* says, and what the windows show when all is quiet.                        *)
EXTENDS FileBrowser, PathLemmas

-----------------------------------------------------------------------------
(* Paths and trees *)

\* The directory of a path, and its last name.
LEMMA FrontIsPath == ASSUME NEW p \in Path PROVE Front(p) \in Path
<1> USE DEF Path
<1>1. Len(p) \in Nat OBVIOUS
<1>2. \A i \in 1..(Len(p) - 1) : p[i] \in Text
  <2> TAKE i \in 1..(Len(p) - 1)
  <2>1. i \in 1..Len(p) BY <1>1
  <2> QED BY <2>1, ElementOfSeq
<1>3. 1 \in Int /\ Len(p) - 1 \in Int BY <1>1
<1> QED BY <1>2, <1>3, SubSeqProperties DEF Front

LEMMA LastIsName == ASSUME NEW p \in Path, p # <<>> PROVE Last(p) \in Text
BY FrontAndLast DEF Path

\* A path and a name after it.
LEMMA OneMore ==
    ASSUME NEW p \in Path, NEW n \in Text
    PROVE  Append(p, n) \in Path /\ Append(p, n) # <<>> /\ Last(Append(p, n)) = n
BY NameAfter DEF Path

\* Two trees, the first over the second; a tree of which something is gone; and
\* one with a new entry.
LEMMA TreeOver == ASSUME NEW f, NEW g, IsTree(f), IsTree(g) PROVE IsTree(Over(f, g))
BY DEF IsTree, Over

LEMMA TreeWithout ==
    ASSUME NEW f, NEW G, IsTree(f) PROVE IsTree([p \in DOMAIN f \ G |-> f[p]])
BY DEF IsTree

LEMMA TreeWith ==
    ASSUME NEW f, IsTree(f), NEW q \in Path, q # <<>> => Last(q) # NoName, NEW k \in {"dir", "file"}
    PROVE  IsTree(Put(f, q, k))
BY DEF IsTree, Put

\* The same for favourites.
LEMMA LinksWith ==
    ASSUME NEW f, AreLinks(f), NEW n \in Text, NEW p \in Path PROVE AreLinks(Put(f, n, p))
BY DEF AreLinks, Put

LEMMA LinksWithout ==
    ASSUME NEW f, NEW n, AreLinks(f) PROVE AreLinks([m \in DOMAIN f \ {n} |-> f[m]])
BY DEF AreLinks

-----------------------------------------------------------------------------
(* Types *)

\* What renames, moves and copies ask for has a name at the end.
Request ==
    {r \in [op : 2..8, src : Path, dest : Path, shown : Path] :
        /\ r.op \in {Rename, Move, Copy, Symlink} => r.dest # <<>>
        /\ r.op \in {Rename, Move, Copy} => Last(r.dest) # NoName}

RowTypes ==
    /\ DOMAIN rows \subseteq Text \ {NoName}
    /\ highlight \in IF DOMAIN rows = {} THEN {NoName} ELSE DOMAIN rows

ViewTypes ==
    /\ entry \in Path /\ listed \in Path /\ RowTypes
    /\ info \in Text /\ dialog \in [op : {0} \cup (Ops \cap Dialogs), file : Path, shown : Path]
    /\ dialog # NoDialog => info # NoName /\ dialog.op # 0

DiskTypes == IsTree(fs) /\ AreLinks(links) /\ AreLinks(favs)

\* What has been sent is on its way, or its refresh is.
Counters ==
    /\ session \in Sessions
    /\ issued \in Nat /\ issued <= session.maxRequests
    /\ requests \in Seq(Request) /\ answers \in Seq({"success", "failed"})
    /\ timers \in [update : Nat, ui : Nat, favourites : Nat]
    /\ timers.update + Len(answers) + Len(requests) <= issued
    /\ timers.favourites + Len(answers) + Len(requests) <= issued
    /\ timers.ui + timers.update + Len(answers) + Len(requests) <= issued + MaxClicks
    /\ attrs \in BOOLEAN /\ polling \in BOOLEAN /\ astray \in BOOLEAN

TypeInv == ViewTypes /\ DiskTypes /\ Counters

\* TypeInv gives every variable its type.
LEMMA TypeInvTypes == TypeInv => TypeOK
<1> SUFFICES ASSUME TypeInv PROVE TypeOK
  OBVIOUS
<1>1. /\ session \in Sessions /\ issued \in 0..session.maxRequests
      /\ timers.update + Len(answers) + Len(requests) <= issued
      /\ attrs \in BOOLEAN /\ polling \in BOOLEAN /\ astray \in BOOLEAN
  <2>1. session.maxRequests \in Nat BY SessionsAssumption DEF TypeInv, Counters
  <2> QED BY <2>1 DEF TypeInv, Counters
<1>2. timers \in [update : 0..issued, ui : 0..(issued + MaxClicks), favourites : 0..issued]
  <2>1. Len(answers) \in Nat /\ Len(requests) \in Nat BY DEF TypeInv, Counters
  <2>2. /\ timers.update \in 0..issued /\ timers.ui \in 0..(issued + MaxClicks)
        /\ timers.favourites \in 0..issued
    BY <2>1, BoundsAssumption DEF TypeInv, Counters
  <2>3. timers = [update |-> timers.update, ui |-> timers.ui, favourites |-> timers.favourites]
    BY DEF TypeInv, Counters
  <2> QED BY <2>2, <2>3
<1>3. /\ DOMAIN rows = {} <=> highlight = NoName
      /\ highlight # NoName => highlight \in DOMAIN rows
  BY DEF TypeInv, ViewTypes, RowTypes
<1>4. /\ entry \in Path /\ listed \in Path /\ dialog.op \in {0} \cup (Ops \cap Dialogs)
      /\ dialog # NoDialog => info # NoName
  BY DEF TypeInv, ViewTypes
<1> QED BY <1>1, <1>2, <1>3, <1>4 DEF TypeOK, TypeInv, DiskTypes

\* A list that is loaded, of whatever path, has rows with names.
LEMMA ListingHasNames == ASSUME IsTree(fs), NEW p PROVE DOMAIN Listing(p) \subseteq Text \ {NoName}
BY LastIsName DEF Listing, IsTree, NoName

LEMMA ListsTypes ==
    ASSUME IsTree(fs), NEW p, Lists(p) PROVE RowTypes' /\ listed' = p
<1>1. DOMAIN Listing(p) \subseteq Text \ {NoName} BY ListingHasNames
<1> QED BY <1>1 DEF Lists, RowTypes, Empty

\* A single name is a path, the one that stands for no list too.
LEMMA NameIsPath == ASSUME NEW n \in Text PROVE <<n>> \in Path
<1>1. <<>> \in Seq(Text) BY EmptySeq
<1>2. <<n>> = Append(<<>>, n) OBVIOUS
<1> QED BY <1>1, <1>2, AppendProperties DEF Path

LEMMA NoListIsPath == NoName \in Text /\ NoList \in Path
<1>1. NoName \in Text BY DEF Text
<1>2. <<NoName>> \in Path BY <1>1, NameIsPath
<1> QED BY <1>1, <1>2 DEF NoList

\* Nothing has been asked for yet, and the start directory is listed.
LEMMA TypeInit == Init => TypeInv
<1> SUFFICES ASSUME Init PROVE TypeInv
  OBVIOUS
<1>1. /\ session \in Sessions /\ fs \in Trees /\ links = session.favourites /\ favs = links
      /\ entry = Start /\ listed = Start /\ rows = Listing(Start)
      /\ highlight \in IF DOMAIN rows = {} THEN {NoName} ELSE DOMAIN rows
      /\ attrs = FALSE /\ info = NoName /\ dialog = NoDialog /\ polling = FALSE /\ astray = FALSE
      /\ timers = [update |-> 0, ui |-> 0, favourites |-> 0]
      /\ requests = <<>> /\ answers = <<>> /\ issued = 0
  BY DEF Init
<1>2. DiskTypes BY <1>1, PathsAssumption, SessionsAssumption DEF DiskTypes
<1>3. RowTypes BY <1>1, <1>2, ListingHasNames DEF RowTypes, DiskTypes
<1>4. ViewTypes
  <2>1. dialog.op = 0 /\ dialog \in [op : {0} \cup (Ops \cap Dialogs), file : Path, shown : Path]
    BY <1>1, NoListIsPath DEF NoDialog
  <2> QED BY <1>1, <1>3, <2>1, PathsAssumption, NoListIsPath DEF ViewTypes
<1>5. Counters
  <2>1. session.maxRequests \in Nat BY <1>1, SessionsAssumption
  <2>2. Len(answers) = 0 /\ Len(requests) = 0 BY <1>1
  <2>3. timers \in [update : Nat, ui : Nat, favourites : Nat]
        /\ timers.update = 0 /\ timers.ui = 0 /\ timers.favourites = 0
    BY <1>1
  <2>4. requests \in Seq(Request) /\ answers \in Seq({"success", "failed"}) BY <1>1, EmptySeq
  <2>5. issued <= session.maxRequests /\ issued \in Nat BY <1>1, <2>1
  <2>6. 0 <= issued + MaxClicks BY <1>1, BoundsAssumption
  <2>7. /\ timers.update + Len(answers) + Len(requests) <= issued
        /\ timers.favourites + Len(answers) + Len(requests) <= issued
        /\ timers.ui + timers.update + Len(answers) + Len(requests) <= issued + MaxClicks
    BY <1>1, <2>2, <2>3, <2>6
  <2> QED BY <1>1, <2>3, <2>4, <2>5, <2>7 DEF Counters
<1> QED BY <1>2, <1>4, <1>5 DEF TypeInv

\* The windows, without the channel: only a click on a favourite starts a timer.
LEMMA TypeNavigation == ASSUME TypeInv, Navigation, UNCHANGED session PROVE TypeInv'
<1> USE DEF TypeInv
<1>1. ASSUME NEW p \in Path, GoesTo(p) PROVE TypeInv'
  <2>1. RowTypes' /\ listed' = p BY <1>1, ListsTypes DEF GoesTo, DiskTypes
  <2>2. /\ entry' = p /\ astray' = FALSE
        /\ UNCHANGED <<fs, links, attrs, info, dialog, favs, polling, timers, requests, answers, issued>>
    BY <1>1 DEF GoesTo, disk, channel
  <2>3. ViewTypes' BY <2>1, <2>2 DEF ViewTypes
  <2>4. DiskTypes' BY <2>2 DEF DiskTypes
  <2> QED BY <2>2, <2>3, <2>4 DEF Counters
<1>2. CASE UpdateDirectory
  <2>1. RowTypes' /\ listed' = entry BY <1>2, ListsTypes DEF UpdateDirectory, DiskTypes
  <2>2. /\ astray' = FALSE
        /\ UNCHANGED <<fs, links, entry, attrs, info, dialog, favs, polling, timers, requests, answers, issued>>
    BY <1>2 DEF UpdateDirectory, disk, channel
  <2>3. ViewTypes' BY <2>1, <2>2 DEF ViewTypes
  <2>4. DiskTypes' BY <2>2 DEF DiskTypes
  <2> QED BY <2>2, <2>3, <2>4 DEF Counters
<1>3. CASE UpperDirectory
  <2>1. Front(entry) \in Path BY FrontIsPath DEF ViewTypes
  <2> QED BY <1>1, <1>3, <2>1 DEF UpperDirectory
<1>4. CASE OnColumnviewActivate
  <2>1. highlight \in Text BY NoListIsPath DEF ViewTypes, RowTypes
  <2>2. Append(entry, highlight) \in Path BY <2>1, OneMore DEF ViewTypes
  <2> QED BY <1>1, <1>4, <2>2 DEF OnColumnviewActivate
<1>5. ASSUME NEW t \in session.texts, TypePath(t) PROVE TypeInv'
  <2>1. t \in Path BY SessionsAssumption DEF Counters
  <2>2. /\ entry' = t /\ astray' = TRUE
        /\ UNCHANGED <<fs, links, listed, rows, highlight, attrs, info, dialog, favs, polling, timers,
                       requests, answers, issued>>
    BY <1>5 DEF TypePath, disk, channel
  <2>3. ViewTypes' BY <2>1, <2>2 DEF ViewTypes, RowTypes
  <2>4. DiskTypes' BY <2>2 DEF DiskTypes
  <2> QED BY <2>2, <2>3, <2>4 DEF Counters
<1>6. ASSUME NEW n \in DOMAIN rows, OnSelectionChanged(n) PROVE TypeInv'
  <2>1. /\ highlight' = n /\ info' = n /\ dialog = NoDialog
        /\ UNCHANGED <<fs, links, entry, listed, rows, attrs, astray, dialog, favs, polling, timers,
                       requests, answers, issued>>
    BY <1>6 DEF OnSelectionChanged, Free, disk, channel
  <2>2. ViewTypes' BY <2>1 DEF ViewTypes, RowTypes
  <2>3. DiskTypes' BY <2>1 DEF DiskTypes
  <2> QED BY <2>1, <2>2, <2>3 DEF Counters
<1>7. ASSUME NEW n \in DOMAIN favs, OnFavoritesRowActivated(n) PROVE TypeInv'
  <2>1. /\ entry' = Front(favs[n]) /\ astray' = ~IsDir(entry') /\ timers.ui < MaxClicks
        /\ UNCHANGED <<fs, links, attrs, info, dialog, favs, polling, requests, answers, issued>>
    BY <1>7 DEF OnFavoritesRowActivated, disk, channel
  <2>2. entry' \in Path BY <2>1, FrontIsPath DEF DiskTypes, AreLinks
  <2>3. \/ Lists(NoList) /\ timers' = [timers EXCEPT !.ui = @ + 1]
        \/ timers' = timers /\ UNCHANGED <<listed, rows, highlight>>
    BY <1>7 DEF OnFavoritesRowActivated, Update
  <2>4. NoList \in Path BY NoListIsPath
  <2>5. RowTypes' /\ listed' \in Path
    <3>1. CASE Lists(NoList) BY <2>4, <3>1, ListsTypes DEF DiskTypes
    <3>2. CASE UNCHANGED <<listed, rows, highlight>> BY <3>2 DEF ViewTypes, RowTypes
    <3> QED BY <2>3, <3>1, <3>2
  <2>6. ViewTypes' BY <2>1, <2>2, <2>5 DEF ViewTypes
  <2>7. DiskTypes' BY <2>1 DEF DiskTypes
  <2>8. Counters'
    <3>1. /\ timers' \in [update : Nat, ui : Nat, favourites : Nat]
          /\ timers'.update = timers.update /\ timers'.favourites = timers.favourites
          /\ timers'.ui = timers.ui \/ timers'.ui <= MaxClicks
      BY <2>1, <2>3, BoundsAssumption DEF Counters
    <3>2. Len(answers) \in Nat /\ Len(requests) \in Nat BY DEF Counters
    <3>3. timers'.ui + timers'.update + Len(answers) + Len(requests) <= issued + MaxClicks
      <4>1. PICK u, i, i2, a, r, k :
               /\ u = timers.update /\ i = timers.ui /\ i2 = timers'.ui
               /\ a = Len(answers) /\ r = Len(requests) /\ k = issued
        OBVIOUS
      <4>2. /\ u \in Int /\ i \in Int /\ i2 \in Int /\ a \in Int /\ r \in Int /\ k \in Int
            /\ i + u + a + r <= k + MaxClicks /\ u + a + r <= k /\ MaxClicks \in Int
            /\ i2 = i \/ i2 <= MaxClicks
        BY <3>1, <3>2, <4>1, BoundsAssumption DEF Counters
      <4>3. i2 + u + a + r <= k + MaxClicks BY <4>2
      <4> QED BY <3>1, <4>1, <4>3
    <3>4. astray' \in BOOLEAN BY <2>1 DEF IsDir
    <3> QED BY <2>1, <3>1, <3>3, <3>4 DEF Counters
  <2> QED BY <2>6, <2>7, <2>8
<1> QED BY <1>2, <1>3, <1>4, <1>5, <1>6, <1>7 DEF Navigation

\* One more of three, and one more at most.
LEMMA OneMoreCounts ==
    ASSUME NEW a \in Int, NEW b \in Int, NEW c \in Int, NEW d \in Int, a + b + c <= d
    PROVE  a + b + (c + 1) <= d + 1
OBVIOUS

\* One more request, well formed, is in the queue; nothing else of the channel
\* has changed.
LEMMA SendsCounts ==
    ASSUME TypeInv, NEW op \in 2..8, NEW src \in Path, NEW dest \in Path, NEW look \in Path,
           Sends(op, src, dest, look), polling' \in BOOLEAN,
           op \in {Rename, Move, Copy, Symlink} => dest # <<>>,
           op \in {Rename, Move, Copy} => Last(dest) # NoName,
           UNCHANGED <<session, attrs, astray, timers>>
    PROVE  Counters'
<1> DEFINE r == [op |-> op, src |-> src, dest |-> dest, shown |-> look]
<1>1. r \in Request BY DEF Request
<1>2. /\ issued < session.maxRequests /\ requests' = Append(requests, r)
      /\ issued' = issued + 1 /\ answers' = answers
  BY DEF Sends
<1> HIDE DEF r
<1>3. requests' \in Seq(Request) /\ Len(requests') = Len(requests) + 1
  BY <1>1, <1>2, AppendProperties DEF TypeInv, Counters
<1>4. Len(answers) \in Nat /\ Len(requests) \in Nat /\ session.maxRequests \in Nat
  BY SessionsAssumption DEF TypeInv, Counters
<1>5. /\ issued \in Nat /\ requests \in Seq(Request) /\ timers.update \in Nat /\ timers.favourites \in Nat /\ timers.ui \in Nat
     /\ timers.update + Len(answers) + Len(requests) <= issued
     /\ timers.favourites + Len(answers) + Len(requests) <= issued
     /\ timers.ui + timers.update + Len(answers) + Len(requests) <= issued + MaxClicks
  BY DEF TypeInv, Counters
<1>6. issued' \in Nat /\ issued' <= session.maxRequests
  <2>1. PICK n, m : n = issued /\ m = session.maxRequests OBVIOUS
  <2>2. n \in Nat /\ m \in Nat /\ n < m BY <1>2, <1>4, <1>5, <2>1
  <2>3. n + 1 \in Nat /\ n + 1 <= m BY <2>2
  <2> QED BY <1>2, <2>1, <2>3
<1>7. /\ timers.update + Len(answers) + Len(requests') <= issued'
      /\ timers.favourites + Len(answers) + Len(requests') <= issued'
      /\ timers.ui + timers.update + Len(answers) + Len(requests') <= issued' + MaxClicks
  <2>1. /\ timers.update + Len(answers) + (Len(requests) + 1) <= issued + 1
        /\ timers.favourites + Len(answers) + (Len(requests) + 1) <= issued + 1
        /\ timers.ui + timers.update + Len(answers) + (Len(requests) + 1) <= (issued + 1) + MaxClicks
    <3>1. timers.ui + timers.update \in Int /\ issued + MaxClicks \in Int BY <1>5, BoundsAssumption
    <3>2. issued + MaxClicks + 1 = (issued + 1) + MaxClicks BY <1>5, BoundsAssumption
    <3>3. /\ timers.update \in Int /\ timers.favourites \in Int /\ issued \in Int
          /\ Len(answers) \in Int /\ Len(requests) \in Int
      BY <1>4, <1>5
    <3>4. timers.update + Len(answers) + (Len(requests) + 1) <= issued + 1
      BY <1>5, <3>3, OneMoreCounts
    <3>5. timers.favourites + Len(answers) + (Len(requests) + 1) <= issued + 1
      BY <1>5, <3>3, OneMoreCounts
    <3>6. timers.ui + timers.update + Len(answers) + (Len(requests) + 1) <= issued + MaxClicks + 1
      BY <1>5, <3>1, <3>3, OneMoreCounts
    <3> QED BY <3>2, <3>4, <3>5, <3>6
  <2>2. Len(requests') = Len(requests) + 1 /\ issued' = issued + 1 BY <1>2, <1>3
  <2> QED BY <2>1, <2>2
<1> QED BY <1>2, <1>3, <1>6, <1>7 DEF TypeInv, Counters

\* What File and Shown give is a path.
LEMMA FileIsPath == TypeInv => File \in Path /\ File # <<>> /\ Last(File) = info /\ Shown \in Path
<1> SUFFICES ASSUME TypeInv PROVE File \in Path /\ File # <<>> /\ Last(File) = info /\ Shown \in Path
  OBVIOUS
<1>1. entry \in Path /\ listed \in Path /\ info \in Text BY DEF TypeInv, ViewTypes
<1>2. highlight \in Text BY NoListIsPath DEF TypeInv, ViewTypes, RowTypes
<1> QED BY <1>1, <1>2, OneMore DEF File, Shown

\* The dialogs and the buttons that send.
LEMMA TypeRequesting == ASSUME TypeInv, Requesting, UNCHANGED session PROVE TypeInv'
<1> USE DEF TypeInv
<1>1. File \in Path /\ File # <<>> /\ Last(File) = info /\ Shown \in Path BY FileIsPath
<1>2. ASSUME UNCHANGED <<view, info, dialog>> PROVE ViewTypes'
  BY <1>2 DEF view, ViewTypes, RowTypes
<1>3. ASSUME UNCHANGED <<disk, favs>> PROVE DiskTypes' BY <1>3 DEF disk, DiskTypes
<1>4. CASE OnNewDirectoryAction
  <2>1. /\ Sends(Mkdir, entry, <<>>, listed) /\ polling' = TRUE
        /\ UNCHANGED <<disk, view, info, dialog, favs, timers>>
    BY <1>4 DEF OnNewDirectoryAction
  <2>2. Mkdir \in 2..8 /\ Mkdir \notin {Rename, Move, Copy, Symlink}
    BY DEF Mkdir, Rename, Move, Copy, Symlink
  <2>3. <<>> \in Path /\ entry \in Path /\ listed \in Path BY EmptySeq DEF Path, ViewTypes
  <2>4. Counters' BY <2>1, <2>2, <2>3, SendsCounts DEF view
  <2> QED BY <1>2, <1>3, <2>1, <2>4
<1>5. CASE OnAddToFavoritesAction
  <2>1. /\ Sends(Symlink, File, <<info>>, Shown) /\ polling' = TRUE
        /\ UNCHANGED <<disk, view, info, dialog, favs, timers>>
    BY <1>5 DEF OnAddToFavoritesAction
  <2>2. Symlink \in 2..8 /\ Symlink \notin {Rename, Move, Copy}
    BY DEF Rename, Move, Copy, Symlink
  <2>3. <<info>> \in Path /\ <<info>> # <<>> BY NameIsPath DEF ViewTypes
  <2>4. Counters' BY <1>1, <2>1, <2>2, <2>3, SendsCounts DEF view
  <2> QED BY <1>2, <1>3, <2>1, <2>4
<1>6. ASSUME NEW op \in Dialogs, OpenDialog(op) PROVE TypeInv'
  <2>1. /\ op \in Ops \cap Dialogs /\ info # NoName
        /\ dialog' = [op |-> op, file |-> File, shown |-> Shown]
        /\ UNCHANGED <<disk, view, info, favs, polling, timers, channel>>
    BY <1>6 DEF OpenDialog
  <2>2. op # 0 BY DEF Dialogs, Delete, Rename, Move, Copy, Chmod
  <2>3. dialog' \in [op : {0} \cup (Ops \cap Dialogs), file : Path, shown : Path] /\ dialog'.op # 0
    BY <1>1, <2>1, <2>2
  <2>4. ViewTypes' BY <2>1, <2>3 DEF view, ViewTypes, RowTypes
  <2>5. Counters' BY <2>1 DEF view, channel, Counters
  <2> QED BY <1>3, <2>1, <2>4, <2>5
<1>7. CASE Respond
  <2>1. PICK dest \in Destinations : Sends(dialog.op, Source, dest, dialog.shown) BY <1>7 DEF Respond
  <2>2. /\ dialog # NoDialog /\ polling' = TRUE /\ dialog' = NoDialog
        /\ UNCHANGED <<disk, view, info, favs, timers>>
    BY <1>7 DEF Respond, Free
  <2>3. /\ dialog.op \in Ops \cap Dialogs /\ info # NoName /\ dialog.file \in Path /\ dialog.shown \in Path
    BY <2>2 DEF ViewTypes
  <2>4. dialog.op \in 2..8 /\ dialog.op # Symlink
    BY <2>3, OpsAssumption DEF Dialogs, Delete, Rename, Move, Copy, Chmod, Symlink
  <2>5. Source \in Path BY <1>1, <2>3 DEF Source
  <2>6. /\ dest \in Path
        /\ dialog.op \in {Rename, Move, Copy} => dest # <<>> /\ Last(dest) # NoName
    <3>1. CASE dialog.op = Rename
      <4>1. PICK n \in NewNames : dest = Append(entry, n)
        BY <3>1 DEF Destinations, Rename, Move, Copy
      <4>2. n \in Text /\ n # NoName BY PathsAssumption, NamesAssumption DEF Text
      <4> QED BY <4>1, <4>2, OneMore DEF ViewTypes
    <3>2. CASE dialog.op \in {Move, Copy}
      <4>1. PICK t \in session.texts : dest = Append(t, info)
        BY <3>2 DEF Destinations, Rename, Move, Copy
      <4>2. t \in Path /\ info \in Text BY SessionsAssumption DEF Counters, ViewTypes
      <4> QED BY <2>3, <4>1, <4>2, OneMore
    <3>3. CASE dialog.op \notin {Rename, Move, Copy}
      <4>1. dest = <<>> BY <3>3 DEF Destinations
      <4> QED BY <3>3, <4>1, EmptySeq DEF Path
    <3> QED BY <3>1, <3>2, <3>3
  <2>7. Counters' BY <2>1, <2>2, <2>3, <2>4, <2>5, <2>6, SendsCounts DEF view
  <2>8. dialog' \in [op : {0} \cup (Ops \cap Dialogs), file : Path, shown : Path]
    BY <2>2, NoListIsPath DEF NoDialog
  <2>9. ViewTypes' BY <2>2, <2>8 DEF view, ViewTypes, RowTypes
  <2> QED BY <1>3, <2>2, <2>7, <2>9
<1>8. CASE Dismiss
  <2>1. /\ dialog' = NoDialog /\ polling' \in {polling, TRUE}
        /\ UNCHANGED <<disk, view, info, favs, timers, channel>>
    BY <1>8 DEF Dismiss
  <2>2. dialog' \in [op : {0} \cup (Ops \cap Dialogs), file : Path, shown : Path]
    BY <2>1, NoListIsPath DEF NoDialog
  <2>3. ViewTypes' BY <2>1, <2>2 DEF view, ViewTypes, RowTypes
  <2>4. Counters' BY <2>1 DEF view, channel, Counters
  <2> QED BY <1>3, <2>1, <2>3, <2>4
<1> QED BY <1>4, <1>5, <1>6, <1>7, <1>8 DEF Requesting

\* A request that has been carried out is answered, or is not; the answer is
\* the last one in the queue.
LEMMA ServedCounts ==
    ASSUME TypeInv, requests # <<>>, requests' = Tail(requests),
           \/ answers' = answers
           \/ \E text \in {"success", "failed"} : answers' = Append(answers, text),
           UNCHANGED <<session, attrs, astray, polling, timers, issued>>
    PROVE  Counters'
<1>1. /\ requests' \in Seq(Request) /\ Len(requests') = Len(requests) - 1
      /\ answers' \in Seq({"success", "failed"})
      /\ Len(answers') = Len(answers) \/ Len(answers') = Len(answers) + 1
  <2>1. requests \in Seq(Request) /\ answers \in Seq({"success", "failed"}) BY DEF TypeInv, Counters
  <2>2. requests' \in Seq(Request) /\ Len(requests') = Len(requests) - 1
    BY <2>1, HeadTailProperties
  <2>3. ASSUME NEW text \in {"success", "failed"}, answers' = Append(answers, text)
        PROVE  answers' \in Seq({"success", "failed"}) /\ Len(answers') = Len(answers) + 1
    BY <2>1, <2>3, AppendProperties
  <2> QED BY <2>1, <2>2, <2>3
<1>2. /\ Len(answers) \in Int /\ Len(requests) \in Int /\ issued \in Int /\ issued + MaxClicks \in Int
      /\ timers.update \in Int /\ timers.favourites \in Int /\ timers.ui + timers.update \in Int
  BY BoundsAssumption DEF TypeInv, Counters
<1>3. /\ timers.update + Len(answers) + Len(requests) <= issued
      /\ timers.favourites + Len(answers) + Len(requests) <= issued
      /\ timers.ui + timers.update + Len(answers) + Len(requests) <= issued + MaxClicks
  BY DEF TypeInv, Counters
<1>4. PICK a, a2, r, r2, u, v, w, n, m :
         /\ a = Len(answers) /\ a2 = Len(answers') /\ r = Len(requests) /\ r2 = Len(requests')
         /\ u = timers.update /\ v = timers.favourites /\ w = timers.ui + timers.update
         /\ n = issued /\ m = issued + MaxClicks
  OBVIOUS
<1>5. /\ a \in Int /\ r \in Int /\ u \in Int /\ v \in Int /\ w \in Int /\ n \in Int /\ m \in Int
      /\ r2 = r - 1 /\ (a2 = a \/ a2 = a + 1)
      /\ u + a + r <= n /\ v + a + r <= n /\ w + a + r <= m
  BY <1>1, <1>2, <1>3, <1>4
<1>6. u + a2 + r2 <= n /\ v + a2 + r2 <= n /\ w + a2 + r2 <= m BY <1>5
<1>7. /\ timers.update + Len(answers') + Len(requests') <= issued
      /\ timers.favourites + Len(answers') + Len(requests') <= issued
      /\ timers.ui + timers.update + Len(answers') + Len(requests') <= issued + MaxClicks
  BY <1>4, <1>6
<1> QED BY <1>1, <1>7 DEF TypeInv, Counters

\* What comes to a new place is what was in the old one.
LEMMA ComeIsTree == ASSUME IsTree(fs), NEW r \in Request, Possible(r) PROVE IsTree(Come(r))
<1> USE DEF Delete, Mkdir, Rename, Move, Copy, Chmod, Symlink
<1>1. r.src \in Path /\ r.dest \in Path BY DEF Request
<1>2. CASE r.op \in {Rename, Move, Copy}
  <2>1. r.dest # <<>> /\ Last(r.dest) # NoName BY <1>2 DEF Request
  <2>2. PICK f : f = Come(r) OBVIOUS
  <2>3. f = [p \in {Rebased(q, r.src, r.dest) : q \in Below(fs, r.src)} |-> fs[Rebased(p, r.dest, r.src)]]
    BY <1>2, <2>2 DEF Come
  <2>4. ASSUME NEW p \in DOMAIN f
        PROVE  p \in Path /\ f[p] \in {"dir", "file"} /\ (p # <<>> => Last(p) # NoName)
    <3>1. PICK q \in Below(fs, r.src) : p = Rebased(q, r.src, r.dest) BY <2>3
    <3>2. q \in DOMAIN fs /\ q \in Path /\ IsPrefix(r.src, q) BY <3>1 DEF Below, IsTree
    <3>3. PICK rest : rest = SubSeq(q, Len(r.src) + 1, Len(q)) OBVIOUS
    <3>4. rest \in Path /\ r.src \o rest = q BY <1>1, <3>2, <3>3, PrefixAndRest DEF Path
    <3>5. p = r.dest \o rest BY <3>1, <3>3 DEF Rebased
    <3>6. /\ p \in Path /\ SubSeq(p, Len(r.dest) + 1, Len(p)) = rest
          /\ rest = <<>> => p = r.dest
          /\ rest # <<>> => Last(p) = Last(rest)
      <4>1. PICK dest : dest = r.dest OBVIOUS
      <4>2. dest \in Seq(Text) /\ rest \in Seq(Text) /\ p = dest \o rest BY <1>1, <3>4, <3>5, <4>1 DEF Path
      <4>3. p \in Seq(Text) BY <4>2
      <4>4. SubSeq(p, Len(dest) + 1, Len(p)) = rest BY <4>2, RestOfConcat
      <4>5. rest = <<>> => p = dest BY <4>2, RestOfConcat
      <4>6. rest # <<>> => Last(p) = Last(rest) BY <4>2, RestOfConcat
      <4> QED BY <4>1, <4>3, <4>4, <4>5, <4>6 DEF Path
    <3>7. f[p] = fs[q] BY <2>3, <3>4, <3>6 DEF Rebased
    <3>8. rest # <<>> => Last(q) = Last(rest)
      <4>1. PICK src : src = r.src OBVIOUS
      <4>2. src \in Seq(Text) /\ rest \in Seq(Text) /\ q = src \o rest BY <1>1, <3>4, <4>1 DEF Path
      <4> QED BY <4>2, RestOfConcat
    <3>9. rest # <<>> => q # <<>>
      BY <1>1, <3>4, ConcatEqualIffEmpty DEF Path
    <3> QED BY <2>1, <3>2, <3>6, <3>7, <3>8, <3>9 DEF IsTree
  <2> QED BY <2>2, <2>4 DEF IsTree
<1>3. CASE r.op = Mkdir
  <2>1. Come(r) = [p \in {Folder(r)} |-> "dir"] BY <1>3 DEF Come
  <2>2. "New Folder0" \in Text /\ "New Folder0" # NoName BY NamesAssumption DEF Text
  <2>3. Folder(r) \in Path /\ Last(Folder(r)) # NoName BY <1>1, <2>2, OneMore DEF Folder
  <2> QED BY <2>1, <2>3 DEF IsTree
<1>4. CASE r.op \notin {Rename, Move, Copy, Mkdir}
  <2>1. Come(r) = Empty BY <1>4 DEF Come
  <2> QED BY <2>1 DEF Empty, IsTree
<1> QED BY <1>2, <1>3, <1>4

\* The disk after a request that was carried out, whole or in part.
LEMMA TypeServe == ASSUME TypeInv, Serve \/ ServeHalf, UNCHANGED session PROVE TypeInv'
<1>1. UNCHANGED <<view, info, dialog, favs, polling, timers, issued>> BY DEF Serve, ServeHalf
<1>2. ViewTypes' BY <1>1 DEF TypeInv, ViewTypes, RowTypes, view
<1>3. PICK r : r = Head(requests) OBVIOUS
<1>4. requests # <<>> BY DEF Serve, ServeHalf
<1>5. r \in Request /\ requests' = Tail(requests)
      /\ \/ answers' = answers
         \/ \E text \in {"success", "failed"} : answers' = Append(answers, text)
  <2>1. requests \in Seq(Request) BY DEF TypeInv, Counters
  <2>2. r \in Request BY <1>3, <1>4, <2>1, HeadTailProperties
  <2>3. requests' = Tail(requests) /\ (answers' = answers \/ Answers("success") \/ Answers("failed"))
    BY DEF Serve, ServeHalf, Answers
  <2> QED BY <2>2, <2>3 DEF Answers
<1>6. Counters' BY <1>1, <1>4, <1>5, ServedCounts DEF view
<1>7. DiskTypes'
  <2>1. IsTree(fs) /\ AreLinks(links) /\ AreLinks(favs) BY DEF TypeInv, DiskTypes
  <2>2. r.src \in Path /\ r.dest \in Path BY <1>5 DEF Request
  <2>3. \/ UNCHANGED disk
        \/ /\ Possible(r) /\ fs' = Over(Come(r), [p \in DOMAIN fs \ Gone(r) |-> fs[p]])
           /\ links' = IF r.op = Symlink THEN Put(links, r.dest[1], r.src) ELSE links
        \/ /\ r.op = Symlink /\ links' = [n \in DOMAIN links \ {r.dest[1]} |-> links[n]]
           /\ UNCHANGED fs
        \/ r.op \in {Move, Copy} /\ Possible(r) /\ fs' = Put(fs, r.dest, fs[r.src]) /\ UNCHANGED links
    BY <1>3 DEF Serve, ServeHalf, disk
  <2>4. CASE UNCHANGED disk BY <1>1, <2>1, <2>4 DEF disk, DiskTypes
  <2>5. CASE /\ Possible(r) /\ fs' = Over(Come(r), [p \in DOMAIN fs \ Gone(r) |-> fs[p]])
             /\ links' = IF r.op = Symlink THEN Put(links, r.dest[1], r.src) ELSE links
    <3>1. PICK f : f = Come(r) OBVIOUS
    <3>2. PICK g : g = [p \in DOMAIN fs \ Gone(r) |-> fs[p]] OBVIOUS
    <3>3. IsTree(f) /\ IsTree(g) BY <1>5, <2>1, <2>5, <3>1, <3>2, ComeIsTree, TreeWithout
    <3>4. IsTree(Over(f, g)) BY <3>3, TreeOver
    <3>5. IsTree(fs)' BY <2>5, <3>1, <3>2, <3>4 DEF IsTree
    <3>6. AreLinks(links')
      <4>1. CASE r.op = Symlink
        <5>1. r.dest # <<>> BY <1>5, <4>1 DEF Request
        <5>2. r.dest[1] \in Text BY <2>2, <5>1 DEF Path
        <5> QED BY <2>1, <2>2, <2>5, <4>1, <5>2, LinksWith
      <4>2. CASE r.op # Symlink BY <2>1, <2>5, <4>2
      <4> QED BY <4>1, <4>2
    <3> QED BY <1>1, <2>1, <3>5, <3>6 DEF DiskTypes, AreLinks
  <2>6. CASE /\ r.op = Symlink /\ links' = [n \in DOMAIN links \ {r.dest[1]} |-> links[n]]
             /\ UNCHANGED fs
    <3>1. AreLinks(links') BY <2>1, <2>6, LinksWithout
    <3> QED BY <1>1, <2>1, <2>6, <3>1 DEF DiskTypes, AreLinks
  <2>7. CASE r.op \in {Move, Copy} /\ Possible(r) /\ fs' = Put(fs, r.dest, fs[r.src]) /\ UNCHANGED links
    <3>1. Last(r.dest) # NoName BY <1>5, <2>7 DEF Request
    <3>2. fs[r.src] \in {"dir", "file"}
      BY <2>1, <2>7 DEF Possible, IsTree, Move, Copy, Mkdir, Symlink
    <3>3. IsTree(Put(fs, r.dest, fs[r.src])) BY <2>1, <2>2, <3>1, <3>2, TreeWith
    <3> QED BY <1>1, <2>1, <2>7, <3>3 DEF DiskTypes, IsTree
  <2> QED BY <2>3, <2>4, <2>5, <2>6, <2>7
<1> QED BY <1>2, <1>6, <1>7 DEF TypeInv

\* What the steps make of the timers.
LEMMA TimersChange ==
    ASSUME NEW t \in [update : Nat, ui : Nat, favourites : Nat]
    PROVE  /\ [t EXCEPT !.update = @ + 1, !.favourites = @ + 1]
                 = [update |-> t.update + 1, ui |-> t.ui, favourites |-> t.favourites + 1]
           /\ [t EXCEPT !.update = @ - 1]
                 = [update |-> t.update - 1, ui |-> t.ui, favourites |-> t.favourites]
           /\ [[t EXCEPT !.update = @ - 1] EXCEPT !.ui = @ + 1]
                 = [update |-> t.update - 1, ui |-> t.ui + 1, favourites |-> t.favourites]
<1>1. t = [update |-> t.update, ui |-> t.ui, favourites |-> t.favourites] OBVIOUS
<1>2. PICK a, b, c : t = [update |-> a, ui |-> b, favourites |-> c] BY <1>1
<1>3. t.update = a /\ t.ui = b /\ t.favourites = c BY <1>2
<1>4. [t EXCEPT !.update = @ + 1, !.favourites = @ + 1]
         = [update |-> a + 1, ui |-> b, favourites |-> c + 1]
  <2>1. PICK r : r = [t EXCEPT !.update = @ + 1, !.favourites = @ + 1] OBVIOUS
  <2>2. DOMAIN r = {"update", "ui", "favourites"} BY <1>2, <2>1
  <2>3. r.update = a + 1 BY <1>2, <2>1
  <2>4. r.ui = b BY <1>2, <2>1
  <2>5. r.favourites = c + 1 BY <1>2, <2>1
  <2>6. r = [update |-> r.update, ui |-> r.ui, favourites |-> r.favourites] BY <2>1, <2>2
  <2> QED BY <2>1, <2>3, <2>4, <2>5, <2>6
<1>5. [t EXCEPT !.update = @ - 1] = [update |-> a - 1, ui |-> b, favourites |-> c]
  BY <1>2
<1>6. [[t EXCEPT !.update = @ - 1] EXCEPT !.ui = @ + 1]
         = [update |-> a - 1, ui |-> b + 1, favourites |-> c]
  <2>1. PICK s : s = [t EXCEPT !.update = @ - 1] OBVIOUS
  <2>2. s = [update |-> a - 1, ui |-> b, favourites |-> c] BY <1>5, <2>1
  <2>3. [s EXCEPT !.ui = @ + 1] = [update |-> a - 1, ui |-> b + 1, favourites |-> c]
    BY <2>2
  <2> QED BY <2>1, <2>3
<1> QED BY <1>3, <1>4, <1>5, <1>6

\* The timers: what fires goes, or waits once more in another place.
LEMMA TypeFiring == ASSUME TypeInv, Firing \/ Monitored, UNCHANGED session PROVE TypeInv'
<1>1. /\ Len(answers) \in Int /\ Len(requests) \in Int /\ issued \in Int /\ issued + MaxClicks \in Int
      /\ timers.update \in Nat /\ timers.favourites \in Nat /\ timers.ui \in Nat
      /\ timers \in [update : Nat, ui : Nat, favourites : Nat]
  BY BoundsAssumption DEF TypeInv, Counters
<1>2. /\ timers.update + Len(answers) + Len(requests) <= issued
      /\ timers.favourites + Len(answers) + Len(requests) <= issued
      /\ timers.ui + timers.update + Len(answers) + Len(requests) <= issued + MaxClicks
  BY DEF TypeInv, Counters
<1>3. NoList \in Path BY NoListIsPath
<1>4. ASSUME \/ \E p \in {entry, NoList} : Lists(p)
             \/ UNCHANGED <<listed, rows, highlight>>,
             UNCHANGED <<entry, info, dialog>>
      PROVE  ViewTypes'
  <2>1. CASE UNCHANGED <<listed, rows, highlight>>
    BY <1>4, <2>1 DEF TypeInv, ViewTypes, RowTypes
  <2>2. ASSUME NEW p \in {entry, NoList}, Lists(p) PROVE ViewTypes'
    <3>1. RowTypes' /\ listed' = p BY <2>2, ListsTypes DEF TypeInv, DiskTypes
    <3>2. listed' \in Path BY <1>3, <3>1 DEF TypeInv, ViewTypes
    <3> QED BY <1>4, <3>1, <3>2 DEF TypeInv, ViewTypes
  <2> QED BY <1>4, <2>1, <2>2
<1>5. CASE ReadBackendMessage
  <2>1. /\ answers # <<>> /\ answers' = Tail(answers)
        /\ \/ timers' = [timers EXCEPT !.update = @ + 1, !.favourites = @ + 1]
           \/ timers' = timers
        /\ UNCHANGED <<disk, view, info, dialog, favs, polling, requests, issued>>
    BY <1>5 DEF ReadBackendMessage
  <2>2. answers' \in Seq({"success", "failed"}) /\ Len(answers') = Len(answers) - 1
    <3>1. answers \in Seq({"success", "failed"}) BY DEF TypeInv, Counters
    <3> QED BY <2>1, <3>1, HeadTailProperties
  <2>3. /\ timers' \in [update : Nat, ui : Nat, favourites : Nat] /\ timers'.ui = timers.ui
        /\ \/ timers'.update = timers.update + 1 /\ timers'.favourites = timers.favourites + 1
           \/ timers'.update = timers.update /\ timers'.favourites = timers.favourites
    <3>1. CASE timers' = [timers EXCEPT !.update = @ + 1, !.favourites = @ + 1]
      <4>1. timers' = [update |-> timers.update + 1, ui |-> timers.ui,
                       favourites |-> timers.favourites + 1]
        BY <1>1, <3>1, TimersChange
      <4>2. timers.update + 1 \in Nat /\ timers.favourites + 1 \in Nat BY <1>1
      <4> QED BY <1>1, <4>1, <4>2
    <3>2. CASE timers' = timers BY <1>1, <3>2
    <3> QED BY <2>1, <3>1, <3>2
  <2>4. /\ timers'.update + Len(answers') + Len(requests) <= issued
        /\ timers'.favourites + Len(answers') + Len(requests) <= issued
        /\ timers'.ui + timers'.update + Len(answers') + Len(requests) <= issued + MaxClicks
    <3>1. PICK u, f, i, u2, f2, a, a2, r, n, m :
             /\ u = timers.update /\ u2 = timers'.update /\ f = timers.favourites
             /\ f2 = timers'.favourites /\ i = timers.ui /\ a = Len(answers) /\ a2 = Len(answers')
             /\ r = Len(requests) /\ n = issued /\ m = issued + MaxClicks
      OBVIOUS
    <3>2. /\ u \in Int /\ f \in Int /\ i \in Int /\ a \in Int /\ r \in Int /\ n \in Int /\ m \in Int
          /\ u + a + r <= n /\ f + a + r <= n /\ i + u + a + r <= m
      BY <1>1, <1>2, <3>1
    <3>3. a2 = a - 1 /\ ((u2 = u + 1 /\ f2 = f + 1) \/ (u2 = u /\ f2 = f)) BY <2>2, <2>3, <3>1
    <3>4. u2 + a2 + r <= n /\ f2 + a2 + r <= n /\ i + u2 + a2 + r <= m BY <3>2, <3>3
    <3> QED BY <2>3, <3>1, <3>4
  <2>5. Counters' BY <2>1, <2>2, <2>3, <2>4 DEF view, TypeInv, Counters
  <2>6. ViewTypes' /\ DiskTypes' BY <2>1 DEF view, disk, TypeInv, ViewTypes, RowTypes, DiskTypes
  <2> QED BY <2>5, <2>6 DEF TypeInv
<1>6. CASE UpdateFires
  <2>1. /\ timers.update > 0 /\ UNCHANGED <<entry, disk, attrs, astray, info, dialog, favs, polling, channel>>
    BY <1>6 DEF UpdateFires
  <2>2. \/ Lists(NoList) /\ timers' = [[timers EXCEPT !.update = @ - 1] EXCEPT !.ui = @ + 1]
        \/ timers' = [timers EXCEPT !.update = @ - 1] /\ UNCHANGED <<listed, rows, highlight>>
    BY <1>6 DEF UpdateFires, Update
  <2>3. /\ timers' \in [update : Nat, ui : Nat, favourites : Nat]
        /\ timers'.update = timers.update - 1 /\ timers'.favourites = timers.favourites
        /\ timers'.ui \in {timers.ui, timers.ui + 1}
    <3>1. timers.update - 1 \in Nat /\ timers.ui + 1 \in Nat BY <1>1, <2>1
    <3>2. \E x \in {timers.ui, timers.ui + 1} :
             timers' = [update |-> timers.update - 1, ui |-> x, favourites |-> timers.favourites]
      BY <1>1, <2>2, TimersChange
    <3> QED BY <1>1, <3>1, <3>2
  <2>4. /\ timers'.update + Len(answers) + Len(requests) <= issued
        /\ timers'.favourites + Len(answers) + Len(requests) <= issued
        /\ timers'.ui + timers'.update + Len(answers) + Len(requests) <= issued + MaxClicks
    <3>1. PICK u, i, u2, i2, a, r, n, m :
             /\ u = timers.update /\ u2 = timers'.update /\ i = timers.ui /\ i2 = timers'.ui
             /\ a = Len(answers) /\ r = Len(requests) /\ n = issued /\ m = issued + MaxClicks
      OBVIOUS
    <3>2. /\ u \in Int /\ i \in Int /\ a \in Int /\ r \in Int /\ n \in Int /\ m \in Int
          /\ u + a + r <= n /\ i + u + a + r <= m
      BY <1>1, <1>2, <3>1
    <3>3. u2 = u - 1 /\ (i2 = i \/ i2 = i + 1) BY <2>3, <3>1
    <3>4. u2 + a + r <= n /\ i2 + u2 + a + r <= m BY <3>2, <3>3
    <3> QED BY <1>2, <2>3, <3>1, <3>4
  <2>5. Counters' BY <2>1, <2>3, <2>4 DEF channel, TypeInv, Counters
  <2>6. ViewTypes' BY <1>4, <2>1, <2>2
  <2>7. DiskTypes' BY <2>1 DEF disk, TypeInv, DiskTypes
  <2> QED BY <2>5, <2>6, <2>7 DEF TypeInv
<1>7. CASE UpdateUi
  <2>1. /\ timers.ui > 0 /\ timers' = [timers EXCEPT !.ui = @ - 1] /\ attrs' = TRUE /\ Lists(entry)
        /\ UNCHANGED <<disk, entry, astray, info, dialog, favs, polling, channel>>
    BY <1>7 DEF UpdateUi
  <2>2. /\ timers' \in [update : Nat, ui : Nat, favourites : Nat]
        /\ timers'.update = timers.update /\ timers'.favourites = timers.favourites
        /\ timers'.ui = timers.ui - 1
    BY <1>1, <2>1
  <2>3. timers'.ui + timers'.update + Len(answers) + Len(requests) <= issued + MaxClicks
    <3>1. PICK u, i, i2, a, r, m :
             /\ u = timers.update /\ i = timers.ui /\ i2 = timers'.ui
             /\ a = Len(answers) /\ r = Len(requests) /\ m = issued + MaxClicks
      OBVIOUS
    <3>2. /\ u \in Int /\ i \in Int /\ a \in Int /\ r \in Int /\ m \in Int /\ i + u + a + r <= m
      BY <1>1, <1>2, <3>1
    <3>3. i2 = i - 1 BY <2>2, <3>1
    <3>4. i2 + u + a + r <= m BY <3>2, <3>3
    <3> QED BY <2>2, <3>1, <3>4
  <2>4. Counters' BY <2>1, <2>2, <2>3 DEF channel, TypeInv, Counters
  <2>5. ViewTypes' BY <1>4, <2>1
  <2>6. DiskTypes' BY <2>1 DEF disk, TypeInv, DiskTypes
  <2> QED BY <2>4, <2>5, <2>6 DEF TypeInv
<1>8. CASE UpdateFavoritesList
  <2>1. /\ timers.favourites > 0 /\ favs' = links
        /\ timers' \in {timers, [timers EXCEPT !.favourites = @ - 1]}
        /\ UNCHANGED <<disk, view, info, dialog, polling, channel>>
    BY <1>8 DEF UpdateFavoritesList
  <2>2. /\ timers' \in [update : Nat, ui : Nat, favourites : Nat]
        /\ timers'.update = timers.update /\ timers'.ui = timers.ui
        /\ timers'.favourites <= timers.favourites
    BY <1>1, <2>1
  <2>3. timers'.favourites + Len(answers) + Len(requests) <= issued
    <3>1. timers'.favourites \in Int BY <2>2
    <3> QED BY <1>1, <1>2, <2>2, <3>1
  <2>4. Counters' BY <2>1, <2>2, <2>3 DEF view, channel, TypeInv, Counters
  <2>5. ViewTypes' BY <2>1 DEF view, TypeInv, ViewTypes, RowTypes
  <2>6. DiskTypes' BY <2>1 DEF disk, TypeInv, DiskTypes, AreLinks
  <2> QED BY <2>4, <2>5, <2>6 DEF TypeInv
<1>9. CASE Monitored
  <2>1. /\ Displays(Listing(listed))
        /\ UNCHANGED <<disk, entry, listed, attrs, astray, info, dialog, favs, polling, timers, channel>>
    BY <1>9 DEF Monitored
  <2>2. DOMAIN Listing(listed) \subseteq Text \ {NoName} BY ListingHasNames DEF TypeInv, DiskTypes
  <2>3. RowTypes' BY <2>1, <2>2 DEF Displays, RowTypes
  <2>4. ViewTypes' BY <2>1, <2>3 DEF TypeInv, ViewTypes
  <2>5. DiskTypes' BY <2>1 DEF disk, TypeInv, DiskTypes
  <2>6. Counters' BY <2>1 DEF channel, TypeInv, Counters
  <2> QED BY <2>4, <2>5, <2>6 DEF TypeInv
<1> QED BY <1>5, <1>6, <1>7, <1>8, <1>9 DEF Firing

LEMMA TypeStep == TypeInv /\ [Next]_vars => TypeInv'
<1> SUFFICES ASSUME TypeInv, [Next]_vars PROVE TypeInv'
  OBVIOUS
<1>1. CASE UNCHANGED vars
  BY <1>1 DEF vars, disk, view, channel, TypeInv, ViewTypes, RowTypes, DiskTypes, Counters
<1> QED BY <1>1, TypeNavigation, TypeRequesting, TypeServe, TypeFiring DEF Next

\* Every variable has its type, and no refresh is scheduled that no success and
\* no click has asked for.
THEOREM TypeCorrect == Spec => []TypeOK
BY TypeInit, TypeStep, TypeInvTypes, PTL DEF Spec

-----------------------------------------------------------------------------
(* What the user sees, and what is asked for *)

\* Text and selection stay what they are while a dialog is open, whatever the
\* timers do: GTK_DIALOG_MODAL keeps the windows from reacting.
LEMMA OpenDialogHolds ==
    ASSUME [Next]_vars, dialog # NoDialog PROVE UNCHANGED <<entry, info>> /\ dialog' \in {dialog, NoDialog}
<1>1. CASE UNCHANGED vars BY <1>1 DEF vars, view
<1>2. CASE Navigation
  BY <1>2 DEF Navigation, Free, UpdateDirectory, UpperDirectory, OnColumnviewActivate, TypePath,
              OnSelectionChanged, OnFavoritesRowActivated
<1>3. CASE Requesting
  BY <1>3 DEF Requesting, Free, OnNewDirectoryAction, OnAddToFavoritesAction, OpenDialog, Respond,
              Dismiss, view
<1>4. CASE Firing \/ Serve \/ ServeHalf \/ Monitored
  BY <1>4 DEF Firing, ReadBackendMessage, UpdateFires, UpdateUi, UpdateFavoritesList, Serve, ServeHalf,
              Monitored, view
<1> QED BY <1>1, <1>2, <1>3, <1>4 DEF Next

\* Whatever refreshes come while a dialog is open, it acts on the file that it
\* was opened for.
THEOREM DialogsKeepTheirFiles == Spec => []DialogKeepsItsFile
<1>1. Init => DialogKeepsItsFile BY DEF Init, DialogKeepsItsFile
<1>2. DialogKeepsItsFile /\ [Next]_vars => DialogKeepsItsFile'
  <2> SUFFICES ASSUME DialogKeepsItsFile, [Next]_vars, dialog' # NoDialog PROVE (Source = dialog.file)'
    BY DEF DialogKeepsItsFile
  <2>1. CASE dialog # NoDialog
    <3>1. UNCHANGED <<entry, info, dialog>> BY <2>1, OpenDialogHolds
    <3> QED BY <2>1, <3>1 DEF DialogKeepsItsFile, Source, File
  <2>2. CASE dialog = NoDialog
    <3>1. ASSUME NEW op \in Dialogs, OpenDialog(op) PROVE (Source = dialog.file)'
      BY <3>1 DEF OpenDialog, view, Source, File
    <3>2. CASE UNCHANGED vars BY <2>2, <3>2 DEF vars
    <3>3. CASE Navigation
      BY <2>2, <3>3 DEF Navigation, UpdateDirectory, UpperDirectory, GoesTo, OnColumnviewActivate, TypePath,
                        OnSelectionChanged, OnFavoritesRowActivated
    <3>4. CASE OnNewDirectoryAction \/ OnAddToFavoritesAction \/ Respond \/ Dismiss
      BY <2>2, <3>4 DEF Free, OnNewDirectoryAction, OnAddToFavoritesAction, Respond, Dismiss
    <3>5. CASE Firing \/ Serve \/ ServeHalf \/ Monitored
      BY <2>2, <3>5 DEF Firing, ReadBackendMessage, UpdateFires, UpdateUi, UpdateFavoritesList, Serve,
                        ServeHalf, Monitored
    <3> QED BY <3>1, <3>2, <3>3, <3>4, <3>5 DEF Next, Requesting
  <2> QED BY <2>1, <2>2
<1> QED BY <1>1, <1>2, PTL DEF Spec

\* The text names the listed directory until the user edits it, or clicks a
\* favourite whose directory is gone.
THEOREM TheTextIsTrue == Spec => []TextNamesList
<1>1. Init => TextNamesList BY DEF Init, TextNamesList
<1>2. TextNamesList /\ [Next]_vars => TextNamesList'
  <2> SUFFICES ASSUME TextNamesList, [Next]_vars, ~astray' PROVE listed' \in {entry', NoList}
    BY DEF TextNamesList
  <2>1. CASE UNCHANGED <<entry, listed, astray>> BY <2>1 DEF TextNamesList
  <2>2. CASE Navigation
    <3>1. CASE UpdateDirectory \/ UpperDirectory \/ OnColumnviewActivate
      BY <3>1 DEF UpdateDirectory, UpperDirectory, OnColumnviewActivate, GoesTo, Lists
    <3>2. \A t \in session.texts : ~TypePath(t) BY DEF TypePath
    <3>3. ASSUME NEW n \in DOMAIN rows, OnSelectionChanged(n) PROVE listed' \in {entry', NoList}
      BY <2>1, <3>3 DEF OnSelectionChanged
    <3>4. ASSUME NEW n \in DOMAIN favs, OnFavoritesRowActivated(n) PROVE listed' \in {entry', NoList}
      BY <3>4 DEF OnFavoritesRowActivated, Update, Lists
    <3> QED BY <2>2, <3>1, <3>2, <3>3, <3>4 DEF Navigation
  <2>3. CASE Requesting
    BY <2>1, <2>3 DEF Requesting, OnNewDirectoryAction, OnAddToFavoritesAction, OpenDialog, Respond, Dismiss, view
  <2>4. CASE UpdateFires BY <2>4 DEF UpdateFires, Update, Lists, TextNamesList
  <2>5. CASE UpdateUi BY <2>5 DEF UpdateUi, Lists
  <2>6. CASE ReadBackendMessage \/ UpdateFavoritesList \/ Serve \/ ServeHalf \/ Monitored
    BY <2>1, <2>6 DEF ReadBackendMessage, UpdateFavoritesList, Serve, ServeHalf, Monitored, view
  <2>7. CASE UNCHANGED vars BY <2>1, <2>7 DEF vars, view
  <2> QED BY <2>2, <2>3, <2>4, <2>5, <2>6, <2>7 DEF Next, Firing
<1> QED BY <1>1, <1>2, PTL DEF Spec

\* Whoever asks for something starts the timer that reads the answers, and
\* nothing stops it.
THEOREM SomebodyReads == Spec => []AnswersAreRead
<1>1. Init => AnswersAreRead BY DEF Init, AnswersAreRead
<1>2. AnswersAreRead /\ [Next]_vars => AnswersAreRead'
  <2> SUFFICES ASSUME AnswersAreRead, [Next]_vars PROVE AnswersAreRead'
    OBVIOUS
  <2>1. CASE UNCHANGED <<polling, channel>> BY <2>1 DEF AnswersAreRead, channel
  <2>2. CASE Navigation \/ UpdateFires \/ UpdateUi \/ UpdateFavoritesList \/ Monitored \/ UNCHANGED vars
    BY <2>1, <2>2 DEF Navigation, UpdateDirectory, UpperDirectory, OnColumnviewActivate, GoesTo, TypePath,
              OnSelectionChanged, OnFavoritesRowActivated, UpdateFires, UpdateUi, UpdateFavoritesList,
              Monitored, vars
  <2>3. CASE Requesting
    <3>1. CASE OnNewDirectoryAction \/ OnAddToFavoritesAction \/ Respond
      BY <3>1 DEF OnNewDirectoryAction, OnAddToFavoritesAction, Respond, AnswersAreRead
    <3>2. ASSUME NEW op \in Dialogs, OpenDialog(op) PROVE AnswersAreRead'
      BY <2>1, <3>2 DEF OpenDialog
    <3>3. CASE Dismiss
      <4>1. polling => polling' BY <3>3, Zenon DEF Dismiss
      <4>2. requests' = requests /\ answers' = answers BY <3>3 DEF Dismiss, channel
      <4> QED BY <4>1, <4>2 DEF AnswersAreRead
    <3> QED BY <2>3, <3>1, <3>2, <3>3 DEF Requesting
  <2>4. CASE ReadBackendMessage
    <3>1. polling /\ polling' = polling BY <2>4 DEF ReadBackendMessage
    <3>2. polling' BY <3>1, Zenon
    <3> QED BY <3>2 DEF AnswersAreRead
  <2>5. CASE Serve \/ ServeHalf BY <2>5 DEF Serve, ServeHalf, AnswersAreRead
  <2> QED BY <2>2, <2>3, <2>4, <2>5 DEF Next, Firing
<1> QED BY <1>1, <1>2, PTL DEF Spec

-----------------------------------------------------------------------------
(* Nothing that succeeded is missed *)

\* A success is on its way to be read.
Succeeded == \E i \in DOMAIN answers : answers[i] = "success"

\* What the windows do not show yet is on its way to them: as an answer, as a
\* refresh that waits, or as the second half of one.
FavsShown == ~session.halves => favs = links \/ timers.favourites > 0 \/ Succeeded
ListShown ==
    ~session.halves /\ ~astray /\ IsDir(entry) =>
        \/ listed = entry /\ rows = Listing(entry)
        \/ timers.ui > 0 \/ timers.update > 0 \/ Succeeded
ShownInv == TypeInv /\ FavsShown /\ ListShown

LEMMA SuccessWaits ==
    ASSUME NEW s \in Seq({"success", "failed"}), NEW x \in {"success", "failed"}
    PROVE  /\ (\E i \in DOMAIN s : s[i] = "success")
                  => \E i \in DOMAIN Append(s, x) : Append(s, x)[i] = "success"
           /\ x = "success" => \E i \in DOMAIN Append(s, x) : Append(s, x)[i] = "success"
<1>1. DOMAIN s = 1..Len(s) /\ DOMAIN Append(s, x) = 1..(Len(s) + 1) /\ Len(s) \in Nat OBVIOUS
<1>2. /\ \A i \in DOMAIN s : i \in DOMAIN Append(s, x) /\ Append(s, x)[i] = s[i]
      /\ Len(s) + 1 \in DOMAIN Append(s, x) /\ Append(s, x)[Len(s) + 1] = x
  BY <1>1
<1> QED BY <1>2

LEMMA SuccessIsRead ==
    ASSUME NEW s \in Seq({"success", "failed"}), s # <<>>, Head(s) # "success",
           \E i \in DOMAIN s : s[i] = "success"
    PROVE  \E i \in DOMAIN Tail(s) : Tail(s)[i] = "success"
<1>1. PICK i \in 1..Len(s) : s[i] = "success" OBVIOUS
<1>2. i # 1 BY <1>1
<1>3. i - 1 \in 1..Len(Tail(s)) /\ Tail(s)[i - 1] = s[i] BY <1>1, <1>2, HeadTailProperties
<1>4. DOMAIN Tail(s) = 1..Len(Tail(s)) BY HeadTailProperties
<1> QED BY <1>1, <1>3, <1>4

\* Nothing that decides what has to be shown changes.
LEMMA ShownStays ==
    ASSUME ShownInv, UNCHANGED <<session, disk, entry, listed, rows, astray, favs, timers, answers>>
    PROVE  FavsShown' /\ ListShown'
BY DEF ShownInv, disk, FavsShown, ListShown, Succeeded, IsDir, Listing

\* Another directory is listed as it is.
LEMMA ShownListed ==
    ASSUME ShownInv, UNCHANGED <<session, disk, favs, timers, answers>>,
           astray' \/ Lists(entry')
    PROVE  FavsShown' /\ ListShown'
<1>1. FavsShown' BY DEF ShownInv, disk, FavsShown, Succeeded
<1>2. fs' = fs BY DEF disk
<1>3. CASE astray' BY <1>1, <1>3 DEF ListShown
<1>4. CASE Lists(entry')
  <2>1. PICK p : p = entry' OBVIOUS
  <2>2. IsDir(p)' = IsDir(p) /\ Listing(p)' = Listing(p) BY <1>2 DEF IsDir, Listing
  <2>3. IsDir(p) => listed' = p /\ rows' = Listing(p) BY <1>4, <2>1 DEF Lists
  <2>4. IsDir(entry)' = IsDir(p)' /\ Listing(entry)' = Listing(p)' BY <2>1 DEF IsDir, Listing
  <2>5. IsDir(entry)' => (listed = entry /\ rows = Listing(entry))' BY <2>1, <2>2, <2>3, <2>4
  <2> QED BY <1>1, <2>5 DEF ListShown
<1> QED BY <1>3, <1>4

LEMMA ShownStep == ShownInv /\ [Next]_vars => ShownInv'
<1> SUFFICES ASSUME ShownInv, [Next]_vars PROVE FavsShown' /\ ListShown'
  BY TypeStep DEF ShownInv
<1>1. /\ TypeInv /\ FavsShown /\ ListShown /\ answers \in Seq({"success", "failed"})
      /\ timers \in [update : Nat, ui : Nat, favourites : Nat]
  BY DEF ShownInv, TypeInv, Counters
<1>2. UNCHANGED session BY DEF Next, vars
<1>3. CASE Navigation
  <2>1. CASE UpdateDirectory \/ UpperDirectory \/ OnColumnviewActivate
    <3>1. UNCHANGED <<session, disk, favs, timers, answers>> /\ Lists(entry')
      BY <1>2, <2>1 DEF UpdateDirectory, UpperDirectory, OnColumnviewActivate, GoesTo, channel
    <3> QED BY <3>1, ShownListed
  <2>2. ASSUME NEW t \in session.texts, TypePath(t) PROVE FavsShown' /\ ListShown'
    BY <1>2, <2>2, ShownListed DEF TypePath, channel
  <2>3. ASSUME NEW n \in DOMAIN rows, OnSelectionChanged(n) PROVE FavsShown' /\ ListShown'
    BY <1>2, <2>3, ShownStays DEF OnSelectionChanged, channel
  <2>4. ASSUME NEW n \in DOMAIN favs, OnFavoritesRowActivated(n) PROVE FavsShown' /\ ListShown'
    <3>1. /\ UNCHANGED <<disk, favs, channel>> /\ astray' = ~IsDir(entry')
          /\ \/ IsDir(entry') /\ timers' = [timers EXCEPT !.ui = @ + 1]
             \/ ~IsDir(entry') /\ timers' = timers
      BY <2>4 DEF OnFavoritesRowActivated, Update
    <3>2. timers'.favourites = timers.favourites /\ (IsDir(entry') => timers'.ui > 0) BY <1>1, <3>1
    <3>3. FavsShown' BY <1>1, <1>2, <3>1, <3>2 DEF disk, channel, FavsShown, Succeeded
    <3>4. ListShown' BY <3>1, <3>2 DEF ListShown, Zenon
    <3> QED BY <3>3, <3>4
  <2> QED BY <1>3, <2>1, <2>2, <2>3, <2>4 DEF Navigation
<1>4. CASE Requesting
  <2>1. UNCHANGED <<disk, view, favs, timers, answers>>
    BY <1>4 DEF Requesting, OnNewDirectoryAction, OnAddToFavoritesAction, OpenDialog, Respond, Dismiss,
                Sends, channel
  <2> QED BY <1>2, <2>1, ShownStays DEF view
<1>5. CASE Serve \/ ServeHalf
  <2>1. UNCHANGED <<session, view, favs, timers>> BY <1>2, <1>5 DEF Serve, ServeHalf
  <2>2. CASE session.halves BY <2>1, <2>2 DEF FavsShown, ListShown
  <2>3. CASE Serve
    <3>1. \/ answers' = Append(answers, "success")
          \/ UNCHANGED disk /\ (answers' = answers \/ answers' = Append(answers, "failed"))
      BY <2>3 DEF Serve, Answers
    <3>2. CASE answers' = Append(answers, "success")
      <4>1. Succeeded' BY <1>1, <3>2, SuccessWaits DEF Succeeded
      <4> QED BY <4>1 DEF FavsShown, ListShown
    <3>3. CASE UNCHANGED disk /\ (answers' = answers \/ answers' = Append(answers, "failed"))
      <4>1. Succeeded => Succeeded' BY <1>1, <3>3, SuccessWaits DEF Succeeded
      <4> QED BY <1>1, <2>1, <3>3, <4>1 DEF disk, view, FavsShown, ListShown, IsDir, Listing
    <3> QED BY <3>1, <3>2, <3>3
  <2>4. CASE ServeHalf BY <2>2, <2>4 DEF ServeHalf
  <2> QED BY <1>5, <2>3, <2>4
<1>6. CASE ReadBackendMessage
  <2>1. /\ answers # <<>> /\ answers' = Tail(answers) /\ UNCHANGED <<session, disk, view, favs>>
        /\ timers' = IF Head(answers) = "success"
                     THEN [timers EXCEPT !.update = @ + 1, !.favourites = @ + 1] ELSE timers
    BY <1>2, <1>6 DEF ReadBackendMessage
  <2>2. CASE Head(answers) = "success"
    <3>1. timers' = [update |-> timers.update + 1, ui |-> timers.ui,
                     favourites |-> timers.favourites + 1]
      BY <1>1, <2>1, <2>2, TimersChange
    <3>2. timers.update \in Nat /\ timers.favourites \in Nat BY <1>1
    <3>3. timers'.update > 0 /\ timers'.favourites > 0 BY <3>1, <3>2
    <3> QED BY <3>3 DEF FavsShown, ListShown
  <2>3. CASE Head(answers) # "success"
    <3>1. Succeeded => Succeeded' BY <1>1, <2>1, <2>3, SuccessIsRead DEF Succeeded
    <3>2. timers' = timers BY <2>1, <2>3
    <3> QED BY <1>1, <2>1, <3>1, <3>2 DEF disk, view, FavsShown, ListShown, IsDir, Listing
  <2> QED BY <2>2, <2>3
<1>7. CASE UpdateFires
  <2>1. /\ UNCHANGED <<session, disk, entry, favs, answers>>
        /\ \/ IsDir(entry) /\ timers' = [[timers EXCEPT !.update = @ - 1] EXCEPT !.ui = @ + 1]
           \/ ~IsDir(entry) /\ timers' = [timers EXCEPT !.update = @ - 1]
    BY <1>2, <1>7 DEF UpdateFires, Update, channel
  <2>2. timers'.favourites = timers.favourites BY <1>1, <2>1, TimersChange
  <2>3. FavsShown' BY <1>1, <2>1, <2>2 DEF disk, FavsShown, Succeeded
  <2>4. CASE IsDir(entry)
    <3>1. timers' = [update |-> timers.update - 1, ui |-> timers.ui + 1, favourites |-> timers.favourites]
      BY <1>1, <2>1, <2>4, TimersChange
    <3>2. timers.ui \in Nat BY <1>1
    <3>3. timers'.ui > 0 BY <3>1, <3>2
    <3> QED BY <2>3, <3>3 DEF ListShown
  <2>5. CASE ~IsDir(entry)
    <3>1. ~IsDir(entry)' BY <2>1, <2>5 DEF disk, IsDir
    <3> QED BY <2>3, <3>1 DEF ListShown
  <2> QED BY <2>4, <2>5
<1>8. CASE UpdateUi
  <2>1. /\ UNCHANGED <<session, disk, entry, favs, answers>> /\ Lists(entry)
        /\ timers' = [timers EXCEPT !.ui = @ - 1]
    BY <1>2, <1>8 DEF UpdateUi, channel
  <2>2. timers'.favourites = timers.favourites BY <1>1, <2>1
  <2>3. FavsShown' BY <1>1, <2>1, <2>2 DEF disk, FavsShown, Succeeded
  <2>4. ListShown' BY <2>1 DEF disk, ListShown, Lists, IsDir, Listing
  <2> QED BY <2>3, <2>4
<1>9. CASE UpdateFavoritesList
  <2>1. /\ UNCHANGED <<session, disk, view, answers>> /\ favs' = links
        /\ timers' \in {timers, [timers EXCEPT !.favourites = @ - 1]}
    BY <1>2, <1>9 DEF UpdateFavoritesList, channel
  <2>2. timers'.ui = timers.ui /\ timers'.update = timers.update BY <1>1, <2>1
  <2>3. FavsShown' BY <2>1 DEF disk, FavsShown
  <2>4. ListShown' BY <1>1, <2>1, <2>2 DEF disk, view, ListShown, Succeeded, IsDir, Listing
  <2> QED BY <2>3, <2>4
<1>10. CASE Monitored
  <2>1. UNCHANGED <<session, disk, entry, listed, astray, favs, timers, answers>>
        /\ rows' = Listing(listed)
    BY <1>2, <1>10 DEF Monitored, Displays, channel
  <2>2. FavsShown' BY <1>1, <2>1 DEF disk, FavsShown, Succeeded
  <2>3. ListShown' BY <1>1, <2>1 DEF disk, ListShown, Succeeded, IsDir, Listing
  <2> QED BY <2>2, <2>3
<1>11. CASE UNCHANGED vars BY <1>11, ShownStays DEF vars, view, channel
<1> QED BY <1>3, <1>4, <1>5, <1>6, <1>7, <1>8, <1>9, <1>10, <1>11 DEF Next, Firing

\* When every request has been carried out, every answer read and every timer
\* has fired, the windows show what is on the disk.
THEOREM ShownWhenIdle == Spec => []IdleShowsDisk
<1>1. Init => ShownInv
  <2> SUFFICES ASSUME Init PROVE FavsShown /\ ListShown BY TypeInit DEF ShownInv
  <2>1. favs = links /\ listed = entry /\ rows = Listing(entry) BY DEF Init
  <2> QED BY <2>1 DEF FavsShown, ListShown
<1>2. ShownInv => IdleShowsDisk
  <2> SUFFICES ASSUME ShownInv, Idle, ~session.halves
               PROVE  /\ timers.favourites = 0 => favs = links
                      /\ ~astray /\ IsDir(entry) => listed = entry /\ rows = Listing(entry)
    BY DEF IdleShowsDisk
  <2>1. ~Succeeded /\ timers.ui = 0 /\ timers.update = 0 BY DEF Idle, Succeeded
  <2>2. FavsShown /\ ListShown BY DEF ShownInv
  <2>3. timers.favourites = 0 => favs = links BY <2>1, <2>2 DEF FavsShown
  <2>4. ~astray /\ IsDir(entry) => listed = entry /\ rows = Listing(entry) BY <2>1, <2>2 DEF ListShown
  <2> QED BY <2>3, <2>4
<1> QED BY <1>1, <1>2, ShownStep, PTL DEF Spec

=============================================================================

---------------------------- MODULE GitHubBrowser ----------------------------
(***************************************************************************)
(* Browsing the user's GitHub repositories: the window shows pages of      *)
(* repositories that look like Aseprite extensions, the helper cuts them   *)
(* out of GitHub's raw pages.                                              *)
(*                                                                         *)
(* A cursor is the position of a repository in GitHub's list, 0 before the *)
(* first one.  A scan goes from a cursor through raw pages until it has    *)
(* found one match more than a page shows, has checked ScanLimit           *)
(* repositories or has come to the end of the list.  The list does not     *)
(* change while it is being browsed.                                       *)
(*                                                                         *)
(* Loads overlap: a search or a move abandons the one before, whose answer *)
(* may still arrive.                                                       *)
(*                                                                         *)
(* Its names are its own, so that a module may extend it beside Sources.   *)
(***************************************************************************)
EXTENDS Naturals, Sequences, SequencesExt, FiniteSetsExt

CONSTANTS
  Query,      \* search texts
  Listings,   \* what GitHub may have: functions from Query to sequences of Node
  Load,       \* tickets of loads that may be outstanding together
  PageSize,   \* GH_REPOSITORY_PAGE_SIZE
  RawSize,    \* GH_REPOSITORY_SCAN_PAGE_SIZE
  ScanLimit,  \* GH_REPOSITORY_SCAN_LIMIT
  FullPages,  \* GitHub fills every raw page but the last
  Nil

\* What a repository's node says: a stable release with an extension asset, a
\* root manifest of an extension, another root manifest, or neither.
Node == {"release", "manifest", "other", "bare"}

ASSUME SizeAssumption ==
  /\ PageSize \in Nat \ {0} /\ RawSize \in Nat \ {0} /\ ScanLimit \in Nat \ {0}
ASSUME ListingAssumption == \A list \in Listings : list \in [Query -> Seq(Node)]
ASSUME NilAssumption == Nil \notin Nat /\ Nil \notin Load /\ Nil \notin Query

VARIABLES
  listing,   \* GitHub's lists
  search,    \* model.githubSearch
  page,      \* model.githubPage
  pages,     \* model.githubPageCount
  shown,     \* model.githubRepositories
  cursors,   \* githubCursors, by page
  current,   \* the ticket of the current generation
  load,      \* what each ticket stands for
  shownFor   \* history: the search whose page is shown, Nil for no page

browserVars == <<listing, search, page, pages, shown, cursors, current, load, shownFor>>

\* A load: the search, the page it is to become; how far the scan has come.
Free ==
  [pc |-> "free", query |-> Nil, page |-> 1,
   at |-> 0, scanned |-> 0, found |-> <<>>, last |-> 0, more |-> TRUE]
LoadState ==
  [pc : {"free", "scan", "found", "failed"}, query : Query \cup {Nil}, page : Nat \ {0},
   at : Nat, scanned : Nat, found : Seq(Nat), last : Nat, more : BOOLEAN]

BrowserTypeOK ==
  /\ listing \in Listings
  /\ search \in Query /\ shownFor \in Query \cup {Nil}
  /\ page \in Nat \ {0} /\ pages \in {page, page + 1}
  /\ shown \in Seq(Nat) /\ Len(shown) <= PageSize
  /\ \A n \in DOMAIN cursors : n \in Nat /\ cursors[n] \in 1..Len(listing[search])
  /\ current \in Load \cup {Nil}
  /\ load \in [Load -> LoadState]
  /\ current # Nil => load[current].pc # "free"

BrowserInit ==
  /\ listing \in Listings
  /\ search \in Query /\ shownFor = Nil
  /\ page = 1 /\ pages = 1 /\ shown = <<>>
  /\ cursors = <<>>
  /\ current = Nil
  /\ load = [l \in Load |-> Free]

-----------------------------------------------------------------------------
(* The helper: scan_repositories_with_executable.                          *)

\* has_aseprite_release_asset; a manifest is fetched only without one.
IsAseprite(node) == node = "release" \/ node = "manifest"

\* The positions of the matches in a part of a list, as a set and in order.
Hits(list, from, to) == {k \in (from + 1)..to : IsAseprite(list[k])}
InOrder(seq, S) == Range(seq) = S /\ \A i, j \in DOMAIN seq : i < j => seq[i] < seq[j]
Matches(list, from, to) ==
  LET hits == Hits(list, from, to)
  IN CHOOSE seq \in [1..Cardinality(hits) -> hits] : InOrder(seq, hits)

\* Where a raw page that starts after a cursor may end.
RawEnds(list, at) ==
  LET full == Min({Len(list), at + RawSize}) IN
  IF FullPages THEN {full} ELSE (at + 1)..full \cup (IF at = full THEN {at} ELSE {})

\* Slip: the match that fills the page ends the scan.
ScanEnd_AtPage(l, end) ==
  LET list == listing[l.query] IN
  Min({end} \cup {k \in (l.at + 1)..end :
         \/ Len(l.found) + Len(Matches(list, l.at, k)) >= PageSize
         \/ l.scanned + (k - l.at) >= ScanLimit})

\* Where in a raw page the scan stops: one match too many, or the limit.
ScanEnd(l, end) ==
  LET list == listing[l.query] IN
  Min({end} \cup {k \in (l.at + 1)..end :
         \/ Len(l.found) + Len(Matches(list, l.at, k)) > PageSize
         \/ l.scanned + (k - l.at) >= ScanLimit})

\* A raw page is fetched, with the manifests it needs, and gone through.
ScanRawPage(t) ==
  /\ load[t].pc = "scan"
  /\ \E end \in RawEnds(listing[load[t].query], load[t].at) :
       LET l == load[t]
           list == listing[l.query]
           stop == ScanEnd(l, end)
           found == l.found \o Matches(list, l.at, stop)
           scanned == l.scanned + (stop - l.at)
           more == end < Len(list)
           done == Len(found) > PageSize \/ scanned >= ScanLimit \/ ~more
       IN load' = [load EXCEPT ![t] =
            [l EXCEPT !.pc = IF done THEN "found" ELSE "scan", !.at = end,
                      !.scanned = scanned, !.found = found, !.last = stop, !.more = more]]
  /\ UNCHANGED <<listing, search, page, pages, shown, cursors, current, shownFor>>

\* No gh, not signed in, an invalid answer, too slow.
ScanFails(t) ==
  /\ load[t].pc = "scan"
  /\ load' = [load EXCEPT ![t].pc = "failed"]
  /\ UNCHANGED <<listing, search, page, pages, shown, cursors, current, shownFor>>

FoundAnother(l) == Len(l.found) > PageSize
Bounded(l) == l.scanned >= ScanLimit /\ l.more
HasNextPage(l) == FoundAnother(l) \/ Bounded(l)

EndCursor(l) ==
  IF FoundAnother(l) THEN l.found[PageSize]
  ELSE IF Bounded(l) THEN l.last
  ELSE Nil

Repositories(l) == SubSeq(l.found, 1, Min({PageSize, Len(l.found)}))

-----------------------------------------------------------------------------
(* The window.                                                             *)

\* load_github_repositories: a new generation begins.
BeginLoad(t, query, cursor, number) ==
  /\ load[t] = Free
  /\ load' = [load EXCEPT ![t] =
       [Free EXCEPT !.pc = "scan", !.query = query, !.page = number,
                    !.at = IF cursor = Nil THEN 0 ELSE cursor]]
  /\ current' = t

\* set_search empties the page that is shown.
Search(t, query) ==
  /\ search' = query
  /\ cursors' = <<>>
  /\ page' = 1 /\ pages' = 1 /\ shown' = <<>> /\ shownFor' = Nil
  /\ BeginLoad(t, query, Nil, 1)
  /\ UNCHANGED listing

Move(t, target) ==
  /\ target \in 1..pages
  /\ target # 1 => target \in DOMAIN cursors
  /\ BeginLoad(t, search, IF target = 1 THEN Nil ELSE cursors[target], target)
  /\ UNCHANGED <<listing, search, page, pages, shown, cursors, shownFor>>

Accepted(t) == t = current

ShowPage(t) ==
  /\ load[t].pc = "found" /\ Accepted(t)
  /\ LET l == load[t] IN
       /\ shown' = Repositories(l)
       /\ page' = l.page
       /\ pages' = IF HasNextPage(l) THEN l.page + 1 ELSE l.page
       /\ cursors' = IF EndCursor(l) # Nil THEN [n \in DOMAIN cursors \cup {l.page + 1} |->
                                      IF n = l.page + 1 THEN EndCursor(l) ELSE cursors[n]]
                     ELSE Restrict(cursors, DOMAIN cursors \ {l.page + 1})
       /\ shownFor' = l.query
  /\ load' = [load EXCEPT ![t] = Free]
  /\ current' = Nil
  /\ UNCHANGED <<listing, search>>

\* set_github_error
ShowError(t) ==
  /\ load[t].pc = "failed" /\ Accepted(t)
  /\ shown' = <<>> /\ page' = 1 /\ pages' = 1
  /\ load' = [load EXCEPT ![t] = Free]
  /\ current' = Nil
  /\ shownFor' = Nil
  /\ UNCHANGED <<listing, search, cursors>>

\* The answer of an abandoned load.
Ignore(t) ==
  /\ load[t].pc \in {"found", "failed"} /\ ~Accepted(t)
  /\ load' = [load EXCEPT ![t] = Free]
  /\ UNCHANGED <<listing, search, page, pages, shown, cursors, current, shownFor>>

BrowserNext ==
  \E t \in Load :
    \/ \E query \in Query : Search(t, query)
    \/ \E target \in {page - 1, page + 1} : Move(t, target)
    \/ ScanRawPage(t) \/ ScanFails(t)
    \/ ShowPage(t) \/ ShowError(t) \/ Ignore(t)

BrowserSpec == BrowserInit /\ [][BrowserNext]_browserVars

-----------------------------------------------------------------------------
(* Properties.                                                             *)

\* "Neither form skips or duplicates an extension" (docs/protocol.md): when
\* nothing is loading, the window shows, for the last search, exactly the
\* matches between its page's cursor and the next page's, or up to the end of
\* the list when there is no next page.  Pages in a row meet at a cursor, so
\* browsing to the end shows each match once, whatever loads were abandoned.
NothingSkipped ==
  current = Nil /\ shownFor # Nil =>
    /\ shownFor = search
    /\ page # 1 => page \in DOMAIN cursors
    /\ LET from == IF page = 1 THEN 0 ELSE cursors[page]
           to == IF page < pages THEN cursors[page + 1] ELSE Len(listing[search])
       IN from <= to /\ shown = Matches(listing[search], from, to)
=============================================================================

------------------------------ MODULE PagedTables ------------------------------
(***************************************************************************)
(* The lists that are read a page at a time: the library                   *)
(* (library/page.tsx), the users (users/page.tsx) and the sessions of an   *)
(* account (account/page.tsx), with the pagination and the header of       *)
(* components/ui/data-grid-*.tsx.  How many rows a search has changes at   *)
(* any time; which rows a page shows is left out.  The cache has answers   *)
(* of earlier requests and shows them until a new one comes.               *)
(***************************************************************************)
EXTENDS Integers, FiniteSets, FiniteSetsExt

CONSTANTS
  Searches,   \* what is searched for
  PageSizes,  \* numbers of rows per page to choose from
  MoreLimit,  \* page buttons shown at once
  MaxRows,    \* bound: rows a search has
  None        \* nothing read

VARIABLES
  db,    \* the server, left open
  seen,  \* the number that was read for the page on display, or None
  ui,    \* the React state
  net,   \* the upload under way
  told   \* history: search -> the numbers of rows that were read for it

vars == <<db, seen, ui, net, told>>

Tables == {"library", "users", "sessions"}

Init ==
  /\ db = None /\ seen = None
  /\ \E table \in Tables, search \in Searches, size \in PageSizes :
       ui = [table |-> table, page |-> 1, perPage |-> size, search |-> search,
             sorting |-> IF table = "library" THEN "desc" ELSE "none", isLoading |-> TRUE,
             uploadOpen |-> FALSE, file |-> FALSE]
  /\ net = "idle"
  /\ told = [s \in Searches |-> {}]

----------------------------------------------------------------------------
(* What is read *)

totalPages(rows, size) == (rows + size - 1) \div size
pageCount == IF seen = None THEN -1 ELSE totalPages(seen, ui.perPage)
recordCount == IF seen = None THEN 0 ELSE seen

\* The page asks for something else: the cache may have it, from an earlier time.
Asks(next) ==
  /\ \E cached \in told[next.search] \cup {None} :
       /\ seen' = cached
       /\ ui' = [next EXCEPT !.isLoading = cached = None]
  /\ UNCHANGED <<db, net, told>>

Read ==
  /\ \E rows \in 0..MaxRows :
       /\ seen' = rows
       /\ told' = [told EXCEPT ![ui.search] = @ \cup {rows}]
  /\ ui' = [ui EXCEPT !.isLoading = FALSE]
  /\ UNCHANGED <<db, net>>

ReadFails == ui.isLoading /\ ui' = [ui EXCEPT !.isLoading = FALSE] /\ UNCHANGED <<db, seen, net, told>>

----------------------------------------------------------------------------
(* The table's state; pages are counted from 0 there *)

onPaginationChange(index, size) == Asks([ui EXCEPT !.page = index + 1, !.perPage = size])

onSortingChange(next) == Asks([ui EXCEPT !.sorting = next, !.page = 1])

\* Mutant: the search goes on at the same page.
setSearchKeepsPage(search) == Asks([ui EXCEPT !.search = search])
setSearch(search) == Asks([ui EXCEPT !.search = search, !.page = 1])

\* TanStack Table keeps an index below the number of pages, if that is known, and
\* the row at the top when the size changes.
setPageIndex(index) ==
  onPaginationChange(IF pageCount = -1 THEN Max({0, index})
                     ELSE Max({0, Min({index, pageCount - 1})}), ui.perPage)
setPageSize(size) == onPaginationChange((ui.perPage * (ui.page - 1)) \div size, size)

----------------------------------------------------------------------------
(* Controls *)

pageIndex == ui.page - 1
currentGroupStart == (pageIndex \div MoreLimit) * MoreLimit
currentGroupEnd == Min({currentGroupStart + MoreLimit, pageCount})

\* The buttons of a group of pages, an ellipsis to the groups around it, and arrows.
renderPageButtons == \E i \in currentGroupStart..(currentGroupEnd - 1) : i # pageIndex /\ setPageIndex(i)
renderEllipsisPrevButton == currentGroupStart > 0 /\ setPageIndex(currentGroupStart - 1)
renderEllipsisNextButton == currentGroupEnd < pageCount /\ setPageIndex(currentGroupEnd)
previousPage == pageIndex > 0 /\ setPageIndex(pageIndex - 1)
nextPage == pageIndex < pageCount - 1 /\ setPageIndex(pageIndex + 1)

\* There are buttons if there is more than one page, sizes in any case.
DataGridPagination ==
  /\ ~ui.isLoading
  /\ \/ \E size \in PageSizes : setPageSize(size)
     \/ /\ pageCount > 1
        /\ \/ previousPage \/ nextPage
           \/ renderPageButtons \/ renderEllipsisPrevButton \/ renderEllipsisNextButton

\* The header goes from ascending to descending to none.
headerButton ==
  /\ ~ui.isLoading /\ recordCount # 0
  /\ onSortingChange(CASE ui.sorting = "asc" -> "desc" [] ui.sorting = "desc" -> "none" [] OTHER -> "asc")

LibraryTable == (\E s \in Searches : setSearch(s)) \/ headerButton \/ DataGridPagination
UsersTable == (\E s \in Searches : setSearch(s)) \/ headerButton \/ DataGridPagination
SessionsTable == DataGridPagination

----------------------------------------------------------------------------
(* Uploads to the library *)

OnScreen(next) == ui' = next /\ UNCHANGED <<db, seen, net, told>>

handleUpload ==
  /\ ui.file /\ net' = "sent"
  /\ UNCHANGED <<db, seen, ui, told>>

\* The file is chosen in the dialog, whose input goes when it is closed.
UploadDialog ==
  \/ OnScreen([ui EXCEPT !.file = TRUE])
  \/ net = "idle" /\ handleUpload
  \/ OnScreen([ui EXCEPT !.uploadOpen = FALSE, !.file = FALSE])

\* The dialog closes, also if it was opened for another file since.
Uploaded ==
  /\ net = "sent"
  /\ ui' = [ui EXCEPT !.uploadOpen = FALSE, !.file = FALSE]
  /\ net' = "idle"
  /\ UNCHANGED <<db, seen, told>>
UploadFails == net = "sent" /\ net' = "idle" /\ UNCHANGED <<db, seen, ui, told>>

Next ==
  \/ Read \/ ReadFails
  \/ ui.table = "library" /\ ~ui.uploadOpen /\
       (LibraryTable \/ OnScreen([ui EXCEPT !.uploadOpen = TRUE]))
  \/ ui.uploadOpen /\ UploadDialog
  \/ Uploaded \/ UploadFails
  \/ ui.table = "users" /\ UsersTable
  \/ ui.table = "sessions" /\ SessionsTable

Spec == Init /\ [][Next]_vars

----------------------------------------------------------------------------
(* Properties *)

TypeOK ==
  /\ db = None /\ seen \in 0..MaxRows \cup {None}
  /\ ui \in [table: Tables, page: 1..(MaxRows + 1), perPage: PageSizes, search: Searches,
             sorting: {"none", "asc", "desc"}, isLoading: BOOLEAN, uploadOpen: BOOLEAN, file: BOOLEAN]
  /\ net \in {"idle", "sent"} /\ told \in [Searches -> SUBSET (0..MaxRows)]

\* A page beyond the first is one the list had when it was read: no search, order or
\* size leads to a page that only another list has, so a page is empty only because
\* rows went away.
PageWasOffered ==
  ui.page = 1 \/ \E rows \in told[ui.search] : ui.page <= totalPages(rows, ui.perPage)

=============================================================================

------------------------------- MODULE MenuPaths -------------------------------
(***************************************************************************)
(* Where the user is in the menu: what useMenu (web/hooks/use-menu.ts)     *)
(* finds for a path in a tree of items, and what the sidebar, the heading  *)
(* and the breadcrumbs (web/components/layouts/main/components) make of    *)
(* it.  A path is the sequence of its characters, after the first slash.   *)
(* The trees are those of at most Width items a level and two levels.      *)
(***************************************************************************)
EXTENDS Integers, Sequences, SequenceTheorems, WellFoundedInduction, TLAPS

CONSTANTS
  None,   \* no path, no item
  Paths,  \* paths: sequences
  Width   \* bound: items on one level of a tree

VARIABLES
  db,    \* the menu's items
  seen,  \* the user is an admin
  ui,    \* the pathname
  net,   \* not used by the menu
  told   \* not used by the menu

vars == <<db, seen, ui, net, told>>

\* A leaf has no children; the code's items then have no such field.
Item(path, children) == [path |-> path, children |-> children]
UpToWidth(S) == UNION {[1..n -> S] : n \in 1..Width}
Leaves == {Item(p, <<>>) : p \in Paths \cup {None}}
MenuItems == Leaves \cup {Item(p, cs) : p \in Paths \cup {None}, cs \in UpToWidth(Leaves)}

----------------------------------------------------------------------------
(* useMenu *)

\* "/" is active on itself only, any other path on those it begins.
isActive(path) ==
  IF path = <<>> THEN ui = <<>> ELSE path # None /\ Len(path) <= Len(ui) /\ SubSeq(ui, 1, Len(path)) = path

hasActiveChild[items \in Seq(MenuItems)] ==
  \E i \in DOMAIN items : isActive(items[i].path) \/ hasActiveChild[items[i].children]

isItemActive(item) == isActive(item.path) \/ hasActiveChild[item.children]

\* The places of a list are looked at one after the other.
First(places) == CHOOSE i \in places : \A j \in places : i <= j

\* The first item that is active or has such a child; of an active one its child.
getCurrentItem[items \in Seq(MenuItems)] ==
  LET here == {i \in DOMAIN items : isActive(items[i].path)
                                     \/ getCurrentItem[items[i].children] # None} IN
  IF here = {} THEN None
  ELSE LET item == items[First(here)]
           child == getCurrentItem[item.children] IN
       IF child # None THEN child ELSE item

\* The way to the first active item, not into its children.  Mutant: a child's
\* answer counts even if it found nothing.
findBreadcrumb(items, least) ==
  LET find[nodes \in Seq(MenuItems)] ==
        [breadcrumb \in Seq(MenuItems) |->
           LET current(i) == Append(breadcrumb, nodes[i])
               below(i) == find[nodes[i].children][current(i)]
               deeper(i) == nodes[i].children # <<>> /\ Len(below(i)) >= Len(current(i)) + least
               here == {i \in DOMAIN nodes : isActive(nodes[i].path) \/ deeper(i)} IN
           IF here = {} THEN breadcrumb
           ELSE IF isActive(nodes[First(here)].path) THEN current(First(here)) ELSE below(First(here))]
  IN find[items][<<>>]
getBreadcrumbOfParents(items) == findBreadcrumb(items, 0)
getBreadcrumb(items) == findBreadcrumb(items, 1)

\* The list of a level that the page is in or below.
findChildren[items \in Seq(MenuItems)] ==
  [level \in Int |->
     LET children(i) == items[i].children
         below(i) == findChildren[children(i)][level - 1]
         inside(i) == level = 0 /\ hasActiveChild[children(i)]
         here == {i \in DOMAIN items : IF children(i) = <<>> THEN level = 0 /\ isActive(items[i].path)
                                        ELSE inside(i) \/ below(i) # None} IN
     IF here = {} THEN None
     ELSE IF children(First(here)) = <<>> THEN items
     ELSE IF inside(First(here)) THEN children(First(here)) ELSE below(First(here))]

getChildren(items, level) == findChildren[items][level]

----------------------------------------------------------------------------
(* The layout *)

\* What the sidebar shows to everyone comes first, the rest is for admins.
menuConfig == IF seen THEN db ELSE SubSeq(db, 1, 1)

\* The links of a drop-down menu, and of the sidebar: an item with children only
\* opens its drop-down.
buildMenuChildren[items \in Seq(MenuItems)] ==
  UNION {IF items[i].children = <<>> THEN {items[i].path} ELSE buildMenuChildren[items[i].children]
         : i \in DOMAIN items}
buildMenu == buildMenuChildren[menuConfig] \ {None}

ToolbarBreadcrumbs == {getBreadcrumb(db)[i].path : i \in DOMAIN getBreadcrumb(db)} \ {None}
ToolbarHeading == getCurrentItem[db]

Init ==
  /\ db \in UpToWidth(MenuItems) /\ seen \in BOOLEAN /\ ui = <<>>
  /\ net = None /\ told = None

\* A link, or an address typed or linked elsewhere.
Navigate ==
  /\ ui' \in Paths \cup buildMenu \cup ToolbarBreadcrumbs
  /\ UNCHANGED <<db, seen, net, told>>

Next == Navigate
Spec == Init /\ [][Next]_vars

----------------------------------------------------------------------------
(* Properties *)

TypeOK == db \in UpToWidth(MenuItems) /\ seen \in BOOLEAN /\ ui \in Paths

Within[top \in MenuItems] == {top} \cup UNION {Within[top.children[i]] : i \in DOMAIN top.children}

\* There is a heading, and there are breadcrumbs, exactly if an item is active; the
\* last breadcrumb is the first active item on its way and the heading is it or a
\* child of it (getCurrentItem and getBreadcrumb search the tree each on its own).
HeadingAndCrumbsAgree ==
  LET crumbs == getBreadcrumb(db) IN
  /\ (ToolbarHeading = None) <=> (crumbs = <<>>)
  /\ (ToolbarHeading = None) <=> \A i \in DOMAIN db : ~isItemActive(db[i])
  /\ crumbs # <<>> =>
       /\ ToolbarHeading \in Within[crumbs[Len(crumbs)]]
       /\ \A i \in DOMAIN crumbs : isActive(crumbs[i].path) <=> i = Len(crumbs)
  /\ \A level \in 0..1 : getChildren(db, level) # None => ToolbarHeading # None

----------------------------------------------------------------------------
(* What the searches find on trees of two levels *)

Sound == None \notin MenuItems /\ <<>> \in Paths /\ Width \in Nat

\* The items of a list that are active, or below which one is.
ActiveIn(items) == {i \in DOMAIN items : isActive(items[i].path)}
OnTheWay(items) == {i \in DOMAIN items : isActive(items[i].path) \/ ActiveIn(items[i].children) # {}}

\* A set of places that is not empty has a first.
LEMMA FirstIs ==
  ASSUME NEW n \in Nat, NEW T \in SUBSET (1 .. n), T # {}
  PROVE  First(T) \in T /\ \A j \in T : First(T) <= j
<1>1. T \subseteq Nat
  OBVIOUS
<1>2. PICK x \in T : \A y \in T : ~(<<y, x>> \in OpToRel(<, Nat))
  BY <1>1, NatLessThanWellFounded, WFMin
<1>3. \A y \in T : x \in Nat /\ y \in Nat
  OBVIOUS
<1>4. \A y \in T : ~(y < x)
  BY <1>2, <1>3 DEF OpToRel
<1>5. \A y \in T : x <= y
  BY <1>3, <1>4
<1> QED
  BY <1>5 DEF First

\* A list of items: their children are leaves, and those have none.
LEMMA ItemsBelow ==
  ASSUME Sound
  PROVE  /\ Leaves \subseteq MenuItems /\ <<>> \in Seq(Leaves)
         /\ \A item \in MenuItems : item.children \in Seq(Leaves) /\ item.path \in Paths \cup {None}
         /\ \A leaf \in Leaves : leaf.children = <<>>
         /\ UpToWidth(MenuItems) \subseteq Seq(MenuItems) /\ Seq(Leaves) \subseteq Seq(MenuItems)
<1>1. Leaves \subseteq MenuItems /\ <<>> \in Seq(Leaves)
  BY DEF MenuItems
<1>2. \A leaf \in Leaves : leaf.children = <<>> /\ leaf.path \in Paths \cup {None}
  BY DEF Leaves, Item
<1>3. ASSUME NEW S  PROVE UpToWidth(S) \subseteq Seq(S)
  <2>1. ASSUME NEW n \in 1 .. Width, NEW s \in [1 .. n -> S]  PROVE s \in Seq(S)
    <3>1. n \in Nat
      BY DEF Sound
    <3> QED
      BY <3>1
  <2> QED
    BY <2>1 DEF UpToWidth
<1>4. UpToWidth(Leaves) \subseteq Seq(Leaves) /\ UpToWidth(MenuItems) \subseteq Seq(MenuItems)
  BY <1>3
<1>5. ASSUME NEW item \in MenuItems  PROVE item.children \in Seq(Leaves)
      /\ item.path \in Paths \cup {None}
  <2>1. CASE item \in Leaves
    BY <1>1, <1>2, <2>1
  <2>2. ASSUME NEW p \in Paths \cup {None}, NEW cs \in UpToWidth(Leaves), item = Item(p, cs)
        PROVE  item.children \in Seq(Leaves) /\ item.path \in Paths \cup {None}
    BY <1>4, <2>2 DEF Item
  <2> QED
    BY <2>1, <2>2 DEF MenuItems
<1>6. Seq(Leaves) \subseteq Seq(MenuItems)
  BY <1>1
<1> QED
  BY <1>1, <1>2, <1>4, <1>5, <1>6

\* Below leaves nothing is active.
LEMMA NothingBelow ==
  ASSUME Sound
  PROVE  /\ ActiveIn(<<>>) = {}
         /\ \A items \in Seq(Leaves) : OnTheWay(items) = ActiveIn(items)
<1>1. ActiveIn(<<>>) = {}
  BY DEF ActiveIn
<1>2. ASSUME NEW items \in Seq(Leaves)  PROVE OnTheWay(items) = ActiveIn(items)
  <2>1. \A i \in DOMAIN items : items[i] \in Leaves
    OBVIOUS
  <2>2. \A i \in DOMAIN items : ActiveIn(items[i].children) = {}
    BY <1>1, <2>1, ItemsBelow
  <2> QED
    BY <2>2 DEF ActiveIn, OnTheWay
<1> QED
  BY <1>1, <1>2

\* hasActiveChild looks at both levels.
LEMMA HasActive ==
  ASSUME Sound
  PROVE  \A items \in Seq(MenuItems) : hasActiveChild[items] <=> OnTheWay(items) # {}
<1> DEFINE found == [items \in Seq(MenuItems) |-> OnTheWay(items) # {}]
           all(f) == [items \in Seq(MenuItems) |->
                        \E i \in DOMAIN items : isActive(items[i].path) \/ f[items[i].children]]
<1>1. ASSUME NEW items \in Seq(MenuItems), NEW i \in DOMAIN items
      PROVE  items[i].children \in Seq(MenuItems)
             /\ found[items[i].children] = (ActiveIn(items[i].children) # {})
  <2>1. items[i] \in MenuItems
    OBVIOUS
  <2>2. items[i].children \in Seq(Leaves) /\ items[i].children \in Seq(MenuItems)
    BY <2>1, ItemsBelow
  <2> QED
    BY <2>2, NothingBelow
<1>2. found = all(found)
  <2>1. ASSUME NEW items \in Seq(MenuItems)
        PROVE  (OnTheWay(items) # {}) = \E i \in DOMAIN items : isActive(items[i].path)
               \/ found[items[i].children]
    BY <1>1 DEF OnTheWay
  <2> QED
    BY <2>1
<1>3. hasActiveChild = CHOOSE f : f = all(f)
  BY DEF hasActiveChild
<1>4. hasActiveChild = all(hasActiveChild)
  BY <1>2, <1>3
<1>5. \A items \in Seq(MenuItems) :
        hasActiveChild[items] = \E i \in DOMAIN items : isActive(items[i].path)
          \/ hasActiveChild[items[i].children]
  BY <1>4
<1>6. hasActiveChild[<<>>] = FALSE
  <2>1. <<>> \in Seq(MenuItems) /\ DOMAIN <<>> = {}
    OBVIOUS
  <2> QED
    BY <1>5, <2>1
<1>7. ASSUME NEW items \in Seq(Leaves)  PROVE hasActiveChild[items] = (ActiveIn(items) # {})
  <2>1. \A i \in DOMAIN items : items[i].children = <<>>
    BY ItemsBelow
  <2>2. items \in Seq(MenuItems)
    BY ItemsBelow
  <2> QED
    BY <1>5, <1>6, <2>1, <2>2 DEF ActiveIn
<1>8. ASSUME NEW items \in Seq(MenuItems)  PROVE hasActiveChild[items] = (OnTheWay(items) # {})
  <2>1. \A i \in DOMAIN items : items[i] \in MenuItems
    OBVIOUS
  <2>2. \A i \in DOMAIN items : hasActiveChild[items[i].children] = (ActiveIn(items[i].children) # {})
    BY <1>7, <2>1, ItemsBelow
  <2> QED
    BY <1>5, <2>2 DEF OnTheWay
<1> QED
  BY <1>8

\* getCurrentItem finds the first item on the way, or its first active child.
FirstActive(items) == IF ActiveIn(items) = {} THEN None ELSE items[First(ActiveIn(items))]
Current(items) ==
  IF OnTheWay(items) = {} THEN None
  ELSE LET item == items[First(OnTheWay(items))] IN
       IF ActiveIn(item.children) # {} THEN FirstActive(item.children) ELSE item

\* The first active leaf is one, and on leaves alone it is the current item.
LEMMA FirstActiveIs ==
  ASSUME Sound, NEW items \in Seq(Leaves)
  PROVE  /\ ActiveIn(items) # {} =>
              /\ FirstActive(items) \in Leaves /\ isActive(FirstActive(items).path)
              /\ \E i \in DOMAIN items : FirstActive(items) = items[i]
         /\ FirstActive(items) # None <=> ActiveIn(items) # {}
         /\ Current(items) = FirstActive(items)
<1>1. Len(items) \in Nat /\ ActiveIn(items) \subseteq 1 .. Len(items)
      /\ DOMAIN items = 1 .. Len(items)
  BY DEF ActiveIn
<1>2. ASSUME ActiveIn(items) # {}
      PROVE  /\ FirstActive(items) \in Leaves /\ isActive(FirstActive(items).path)
             /\ \E i \in DOMAIN items : FirstActive(items) = items[i]
  <2>1. First(ActiveIn(items)) \in ActiveIn(items)
    BY <1>1, <1>2, FirstIs
  <2>2. FirstActive(items) = items[First(ActiveIn(items))]
    BY <1>2 DEF FirstActive
  <2>3. PICK i : i = First(ActiveIn(items))
    OBVIOUS
  <2>4. i \in 1 .. Len(items) /\ isActive(items[i].path) /\ FirstActive(items) = items[i]
    BY <1>1, <2>1, <2>2, <2>3 DEF ActiveIn
  <2>5. items[i] \in Leaves
    BY <1>1, <2>4
  <2> QED
    BY <1>1, <2>4, <2>5
<1>3. None \notin Leaves
  BY ItemsBelow DEF Sound
<1>4. FirstActive(items) # None <=> ActiveIn(items) # {}
  BY <1>2, <1>3 DEF FirstActive
<1>5. Current(items) = FirstActive(items)
  <2>1. OnTheWay(items) = ActiveIn(items)
    BY NothingBelow
  <2>2. CASE ActiveIn(items) = {}
    BY <2>1, <2>2 DEF Current, FirstActive
  <2>3. CASE ActiveIn(items) # {}
    <3>1. FirstActive(items) = items[First(OnTheWay(items))] /\ FirstActive(items).children = <<>>
      BY <1>2, <2>1, <2>3, ItemsBelow DEF FirstActive
    <3> QED
      BY <2>1, <2>3, <3>1, NothingBelow DEF Current
  <2> QED
    BY <2>2, <2>3
<1> QED
  BY <1>2, <1>4, <1>5

\* The items with something below them, as getCurrentItem asks for it.
LEMMA CurrentBelow ==
  ASSUME Sound, NEW items \in Seq(MenuItems)
  PROVE  /\ OnTheWay(items) = {i \in DOMAIN items : isActive(items[i].path) \/ FirstActive(items[i].children) # None}
         /\ OnTheWay(items) # {} => items[First(OnTheWay(items))] \in MenuItems
<1>1. ASSUME NEW i \in DOMAIN items
      PROVE  FirstActive(items[i].children) # None <=> ActiveIn(items[i].children) # {}
  <2>1. items[i] \in MenuItems
    OBVIOUS
  <2> QED
    BY <2>1, ItemsBelow, FirstActiveIs
<1>2. OnTheWay(items) = {i \in DOMAIN items : isActive(items[i].path) \/ FirstActive(items[i].children) # None}
  BY <1>1 DEF OnTheWay
<1>3. ASSUME OnTheWay(items) # {}  PROVE items[First(OnTheWay(items))] \in MenuItems
  <2>1. Len(items) \in Nat /\ OnTheWay(items) \subseteq 1 .. Len(items)
        /\ DOMAIN items = 1 .. Len(items)
    BY DEF OnTheWay
  <2>2. First(OnTheWay(items)) \in 1 .. Len(items)
    BY <1>3, <2>1, FirstIs
  <2> QED
    BY <2>1, <2>2
<1> QED
  BY <1>2, <1>3

\* getCurrentItem is that.
LEMMA CurrentFound ==
  ASSUME Sound
  PROVE  \A items \in Seq(MenuItems) : getCurrentItem[items] = Current(items)
<1> DEFINE here(f, items) == {i \in DOMAIN items : isActive(items[i].path) \/ f[items[i].children] # None}
           finds(f, items) ==
             IF here(f, items) = {} THEN None
             ELSE LET item == items[First(here(f, items))]
                      child == f[item.children] IN
                  IF child # None THEN child ELSE item
           all(f) == [items \in Seq(MenuItems) |-> finds(f, items)]
           found == [items \in Seq(MenuItems) |-> Current(items)]
<1>1. getCurrentItem = CHOOSE f : f = all(f)
  BY DEF getCurrentItem, First
<1>2. ASSUME NEW f, NEW items, here(f, items) = {}  PROVE finds(f, items) = None
  BY <1>2
<1>3. ASSUME NEW f, NEW items, here(f, items) # {}, NEW item, item = items[First(here(f, items))]
      PROVE  finds(f, items) = IF f[item.children] # None THEN f[item.children] ELSE item
  BY <1>3
<1>4. ASSUME NEW f, NEW items
      PROVE here(f, items) = {i \in DOMAIN items : isActive(items[i].path) \/ f[items[i].children] # None}
  OBVIOUS
<1> HIDE DEF here, finds
<1>5. ASSUME NEW f, \A c \in Seq(Leaves) : f[c] = FirstActive(c), NEW items \in Seq(MenuItems)
      PROVE  finds(f, items) = Current(items)
  <2>1. \A i \in DOMAIN items : f[items[i].children] = FirstActive(items[i].children)
    <3>1. \A i \in DOMAIN items : items[i] \in MenuItems
      OBVIOUS
    <3> QED
      BY <1>5, <3>1, ItemsBelow
  <2>2. here(f, items) = OnTheWay(items)
    BY <1>4, <2>1, CurrentBelow
  <2>3. CASE OnTheWay(items) = {}
    BY <1>2, <2>2, <2>3 DEF Current
  <2>4. CASE OnTheWay(items) # {}
    <3>1. PICK item : item = items[First(OnTheWay(items))]
      OBVIOUS
    <3>2. item \in MenuItems /\ item.children \in Seq(Leaves)
      BY <2>4, <3>1, CurrentBelow, ItemsBelow
    <3>3. f[item.children] = FirstActive(item.children)
      BY <1>5, <3>2
    <3>4. FirstActive(item.children) # None <=> ActiveIn(item.children) # {}
      BY <3>2, FirstActiveIs
    <3>5. finds(f, items) = IF f[item.children] # None THEN f[item.children] ELSE item
      BY <1>3, <2>2, <2>4, <3>1
    <3>6. Current(items) = IF ActiveIn(item.children) # {} THEN FirstActive(item.children) ELSE item
      BY <2>4, <3>1 DEF Current
    <3> QED
      BY <3>3, <3>4, <3>5, <3>6
  <2> QED
    BY <2>3, <2>4
<1>6. getCurrentItem = all(getCurrentItem)
  <2>1. \A c \in Seq(Leaves) : found[c] = FirstActive(c)
    BY FirstActiveIs, ItemsBelow
  <2>2. PICK f : f = found
    OBVIOUS
  <2>3. \A items \in Seq(MenuItems) : finds(f, items) = Current(items)
    BY <1>5, <2>1, <2>2
  <2>4. f = all(f)
    BY <2>2, <2>3
  <2> QED
    BY <1>1, <2>4
<1>7. PICK f : f = getCurrentItem
  OBVIOUS
<1>8. \A items \in Seq(MenuItems) : f[items] = finds(f, items)
  <2>1. f = all(f)
    BY <1>6, <1>7
  <2> QED
    BY <2>1
<1>9. f[<<>>] = None
  <2>1. <<>> \in Seq(MenuItems) /\ DOMAIN <<>> = {}
    OBVIOUS
  <2>2. here(f, <<>>) = {}
    BY <1>4, <2>1
  <2> QED
    BY <1>2, <1>8, <2>1, <2>2
<1>10. ASSUME NEW c \in Seq(Leaves)  PROVE f[c] = FirstActive(c)
  <2>1. c \in Seq(MenuItems) /\ \A i \in DOMAIN c : c[i].children = <<>>
    BY ItemsBelow
  <2>2. here(f, c) = ActiveIn(c)
    BY <1>4, <1>9, <2>1 DEF ActiveIn
  <2>3. CASE ActiveIn(c) = {}
    BY <1>2, <1>8, <2>1, <2>2, <2>3 DEF FirstActive
  <2>4. CASE ActiveIn(c) # {}
    <3>1. PICK leaf : leaf = c[First(ActiveIn(c))]
      OBVIOUS
    <3>2. leaf = FirstActive(c) /\ leaf.children = <<>>
      BY <2>4, <3>1, FirstActiveIs, ItemsBelow DEF FirstActive
    <3>3. finds(f, c) = IF f[leaf.children] # None THEN f[leaf.children] ELSE leaf
      BY <1>3, <2>2, <2>4, <3>1
    <3> QED
      BY <1>8, <1>9, <2>1, <3>2, <3>3
  <2> QED
    BY <2>3, <2>4
<1> QED
  BY <1>5, <1>7, <1>8, <1>10

\* The way to the first item on it: that item if it is active, else also its first active child.
Way(nodes, breadcrumb) ==
  IF OnTheWay(nodes) = {} THEN breadcrumb
  ELSE LET item == nodes[First(OnTheWay(nodes))] IN
       IF isActive(item.path) THEN Append(breadcrumb, item)
       ELSE Append(Append(breadcrumb, item), FirstActive(item.children))

\* getBreadcrumb goes it.
LEMMA WayFound ==
  ASSUME Sound
  PROVE  \A items \in Seq(MenuItems) : getBreadcrumb(items) = Way(items, <<>>)
<1> DEFINE current(nodes, breadcrumb, i) == Append(breadcrumb, nodes[i])
           below(f, nodes, breadcrumb, i) == f[nodes[i].children][current(nodes, breadcrumb, i)]
           deeper(f, nodes, breadcrumb, i) ==
             /\ nodes[i].children # <<>>
             /\ Len(below(f, nodes, breadcrumb, i)) >= Len(current(nodes, breadcrumb, i)) + 1
           here(f, nodes, breadcrumb) ==
             {i \in DOMAIN nodes : isActive(nodes[i].path) \/ deeper(f, nodes, breadcrumb, i)}
           goes(f, nodes, breadcrumb) ==
             IF here(f, nodes, breadcrumb) = {} THEN breadcrumb
             ELSE IF isActive(nodes[First(here(f, nodes, breadcrumb))].path)
                  THEN current(nodes, breadcrumb, First(here(f, nodes, breadcrumb)))
                  ELSE below(f, nodes, breadcrumb, First(here(f, nodes, breadcrumb)))
           all(f) == [nodes \in Seq(MenuItems) |-> [breadcrumb \in Seq(MenuItems) |-> goes(f, nodes, breadcrumb)]]
           found == [nodes \in Seq(MenuItems) |-> [breadcrumb \in Seq(MenuItems) |-> Way(nodes, breadcrumb)]]
<1>1. PICK find : find = CHOOSE f : f = all(f)
  OBVIOUS
<1>2. \A items : getBreadcrumb(items) = find[items][<<>>]
  <2>1. ASSUME NEW items  PROVE getBreadcrumb(items) = (CHOOSE f : f = all(f))[items][<<>>]
    BY DEF getBreadcrumb, findBreadcrumb
  <2> HIDE DEF all
  <2> QED
    BY <1>1, <2>1
<1>3. ASSUME NEW f, NEW nodes, NEW breadcrumb
      PROVE  here(f, nodes, breadcrumb) = {i \in DOMAIN nodes : isActive(nodes[i].path) \/ deeper(f, nodes, breadcrumb, i)}
  OBVIOUS
<1>4. ASSUME NEW f, NEW nodes, NEW breadcrumb, here(f, nodes, breadcrumb) = {}
      PROVE goes(f, nodes, breadcrumb) = breadcrumb
  BY <1>4
<1>5. ASSUME NEW f, NEW nodes, NEW breadcrumb, here(f, nodes, breadcrumb) # {},
             NEW item, item = nodes[First(here(f, nodes, breadcrumb))]
      PROVE  goes(f, nodes, breadcrumb) =
               IF isActive(item.path) THEN Append(breadcrumb, item) ELSE f[item.children][Append(breadcrumb, item)]
  BY <1>5
<1> HIDE DEF here, goes
<1>6. ASSUME NEW f, NEW nodes \in Seq(MenuItems), NEW breadcrumb \in Seq(MenuItems),
             \A c \in Seq(Leaves), b \in Seq(MenuItems) :
               f[c][b] = IF ActiveIn(c) = {} THEN b ELSE Append(b, FirstActive(c))
      PROVE  goes(f, nodes, breadcrumb) = Way(nodes, breadcrumb)
  <2>1. ASSUME NEW i \in DOMAIN nodes
        PROVE  deeper(f, nodes, breadcrumb, i) <=> ActiveIn(nodes[i].children) # {}
    <3>1. PICK item \in MenuItems : item = nodes[i]
      OBVIOUS
    <3>2. PICK way : way = Append(breadcrumb, item) /\ way \in Seq(MenuItems)
      <4>1. Append(breadcrumb, item) \in Seq(MenuItems)
        BY <3>1
      <4> QED
        BY <4>1
    <3>3. item.children \in Seq(Leaves)
      BY <3>1, ItemsBelow
    <3>4. CASE ActiveIn(item.children) = {}
      <4>1. f[item.children][way] = way
        BY <1>6, <3>2, <3>3, <3>4
      <4>2. ~(Len(way) >= Len(way) + 1)
        BY <3>2
      <4> QED
        BY <3>1, <3>2, <3>4, <4>1, <4>2
    <3>5. CASE ActiveIn(item.children) # {}
      <4>1. f[item.children][way] = Append(way, FirstActive(item.children)) /\ item.children # <<>>
        BY <1>6, <3>2, <3>3, <3>5, NothingBelow
      <4>2. Len(Append(way, FirstActive(item.children))) >= Len(way) + 1
        <5>1. FirstActive(item.children) \in MenuItems
          BY <3>3, <3>5, FirstActiveIs, ItemsBelow
        <5> QED
          BY <3>2, <5>1
      <4> QED
        BY <3>1, <3>2, <3>5, <4>1, <4>2
    <3> QED
      BY <3>1, <3>4, <3>5
  <2>2. here(f, nodes, breadcrumb) = OnTheWay(nodes)
    BY <1>3, <2>1 DEF OnTheWay
  <2>3. CASE OnTheWay(nodes) = {}
    BY <1>4, <2>2, <2>3 DEF Way
  <2>4. CASE OnTheWay(nodes) # {}
    <3>1. PICK item : item = nodes[First(OnTheWay(nodes))]
      OBVIOUS
    <3>2. item \in MenuItems /\ (isActive(item.path) \/ ActiveIn(item.children) # {})
      <4>1. Len(nodes) \in Nat /\ OnTheWay(nodes) \subseteq 1 .. Len(nodes)
            /\ DOMAIN nodes = 1 .. Len(nodes)
        BY DEF OnTheWay
      <4>2. PICK i : i = First(OnTheWay(nodes)) /\ i \in OnTheWay(nodes)
        BY <2>4, <4>1, FirstIs
      <4>3. i \in DOMAIN nodes /\ (isActive(nodes[i].path) \/ ActiveIn(nodes[i].children) # {})
        BY <4>2 DEF OnTheWay
      <4> QED
        BY <3>1, <4>2, <4>3
    <3>3. item.children \in Seq(Leaves) /\ Append(breadcrumb, item) \in Seq(MenuItems)
      BY <3>2, ItemsBelow
    <3>4. ~isActive(item.path) => f[item.children][Append(breadcrumb, item)]
                                    = Append(Append(breadcrumb, item), FirstActive(item.children))
      BY <1>6, <3>2, <3>3
    <3>5. goes(f, nodes, breadcrumb) =
            IF isActive(item.path) THEN Append(breadcrumb, item) ELSE f[item.children][Append(breadcrumb, item)]
      BY <1>5, <2>2, <2>4, <3>1
    <3>6. Way(nodes, breadcrumb) = IF isActive(item.path) THEN Append(breadcrumb, item)
                                   ELSE Append(Append(breadcrumb, item), FirstActive(item.children))
      BY <2>4, <3>1 DEF Way
    <3> QED
      BY <3>4, <3>5, <3>6
  <2> QED
    BY <2>3, <2>4
<1>7. find = all(find)
  <2>1. ASSUME NEW c \in Seq(Leaves), NEW b \in Seq(MenuItems)
        PROVE  Way(c, b) = IF ActiveIn(c) = {} THEN b ELSE Append(b, FirstActive(c))
    <3>1. OnTheWay(c) = ActiveIn(c)
      BY NothingBelow
    <3>2. ActiveIn(c) # {} => FirstActive(c) = c[First(ActiveIn(c))]
          /\ isActive(FirstActive(c).path)
      BY FirstActiveIs DEF FirstActive
    <3> QED
      BY <3>1, <3>2 DEF Way
  <2>2. PICK f : f = found
    OBVIOUS
  <2>3. \A c \in Seq(Leaves),
        b \in Seq(MenuItems) : f[c][b] = IF ActiveIn(c) = {} THEN b ELSE Append(b, FirstActive(c))
    BY <2>1, <2>2, ItemsBelow
  <2>4. \A nodes, breadcrumb \in Seq(MenuItems) : goes(f, nodes, breadcrumb) = Way(nodes, breadcrumb)
    BY <1>6, <2>3
  <2>5. f = all(f)
    BY <2>2, <2>4
  <2> HIDE DEF all
  <2> QED
    BY <1>1, <2>5
<1>8. \A nodes, breadcrumb \in Seq(MenuItems) : find[nodes][breadcrumb] = goes(find, nodes, breadcrumb)
  <2>1. ASSUME NEW nodes \in Seq(MenuItems)
        PROVE  find[nodes] = [breadcrumb \in Seq(MenuItems) |-> goes(find, nodes, breadcrumb)]
    <3>1. PICK f : f = find
      OBVIOUS
    <3>2. find = all(f)
      BY <1>7, <3>1
    <3>3. find[nodes] = [breadcrumb \in Seq(MenuItems) |-> goes(f, nodes, breadcrumb)]
      BY <3>2
    <3> QED
      BY <3>1, <3>3
  <2> QED
    BY <2>1
<1>9. \A b \in Seq(MenuItems) : find[<<>>][b] = b
  <2>1. <<>> \in Seq(MenuItems) /\ DOMAIN <<>> = {}
    OBVIOUS
  <2>2. \A b : here(find, <<>>, b) = {}
    BY <1>3, <2>1
  <2> QED
    BY <1>4, <1>8, <2>1, <2>2
<1>10. ASSUME NEW c \in Seq(Leaves), NEW b \in Seq(MenuItems)
       PROVE  find[c][b] = IF ActiveIn(c) = {} THEN b ELSE Append(b, FirstActive(c))
  <2>1. c \in Seq(MenuItems) /\ \A i \in DOMAIN c : c[i].children = <<>>
    BY ItemsBelow
  <2>2. here(find, c, b) = ActiveIn(c)
    BY <1>3, <2>1 DEF ActiveIn
  <2>3. CASE ActiveIn(c) = {}
    BY <1>4, <1>8, <2>1, <2>2, <2>3
  <2>4. CASE ActiveIn(c) # {}
    <3>1. PICK leaf : leaf = c[First(ActiveIn(c))]
      OBVIOUS
    <3>2. leaf = FirstActive(c) /\ isActive(leaf.path)
      BY <2>4, <3>1, FirstActiveIs DEF FirstActive
    <3>3. goes(find, c, b) = Append(b, leaf)
      BY <1>5, <2>2, <2>4, <3>1, <3>2
    <3> QED
      BY <1>8, <2>1, <2>4, <3>2, <3>3
  <2> QED
    BY <2>3, <2>4
<1>11. ASSUME NEW items \in Seq(MenuItems)  PROVE find[items][<<>>] = Way(items, <<>>)
  <2>1. <<>> \in Seq(MenuItems)
    OBVIOUS
  <2> QED
    BY <1>6, <1>8, <1>10, <2>1
<1> QED
  BY <1>2, <1>11

\* getChildren finds no list where nothing is on the way.
LEMMA ChildrenFound ==
  ASSUME Sound
  PROVE  \A items \in Seq(MenuItems), level \in Int : getChildren(items, level) # None
         => OnTheWay(items) # {}
<1> DEFINE below(f, items, level, i) == f[items[i].children][level - 1]
           inside(items, level, i) == level = 0 /\ hasActiveChild[items[i].children]
           here(f, items, level) ==
             {i \in DOMAIN items :
                IF items[i].children = <<>> THEN level = 0 /\ isActive(items[i].path)
                ELSE inside(items, level, i) \/ below(f, items, level, i) # None}
           gives(f, items, level) ==
             IF here(f, items, level) = {} THEN None
             ELSE IF items[First(here(f, items, level))].children = <<>> THEN items
             ELSE IF inside(items, level, First(here(f, items, level)))
                  THEN items[First(here(f, items, level))].children
                  ELSE below(f, items, level, First(here(f, items, level)))
           all(f) == [items \in Seq(MenuItems) |-> [level \in Int |-> gives(f, items, level)]]
           ofLeaves(c, level) == IF level = 0 /\ ActiveIn(c) # {} THEN c ELSE None
           some == [c \in Seq(MenuItems) |-> [level \in Int |-> ofLeaves(c, level)]]
           found == [items \in Seq(MenuItems) |-> [level \in Int |-> gives(some, items, level)]]
<1>1. findChildren = CHOOSE f : f = all(f)
  BY DEF findChildren
<1>2. ASSUME NEW f, NEW c \in Seq(Leaves), NEW level \in Int
      PROVE gives(f, c, level) = ofLeaves(c, level)
  <2>1. \A i \in DOMAIN c : c[i].children = <<>>
    BY ItemsBelow
  <2>2. PICK h : h = here(f, c, level)
    OBVIOUS
  <2>3. h = IF level = 0 THEN ActiveIn(c) ELSE {}
    BY <2>1, <2>2 DEF ActiveIn
  <2>4. CASE h = {}
    BY <2>2, <2>3, <2>4
  <2>5. CASE h # {}
    <3>1. Len(c) \in Nat /\ ActiveIn(c) \subseteq 1 .. Len(c) /\ DOMAIN c = 1 .. Len(c)
      BY DEF ActiveIn
    <3>2. PICK i : i = First(h) /\ i \in DOMAIN c
      BY <2>3, <2>5, <3>1, FirstIs
    <3>3. gives(f, c, level) = c
      BY <2>1, <2>2, <2>5, <3>2
    <3> QED
      BY <2>3, <2>5, <3>3
  <2> QED
    BY <2>4, <2>5
<1>3. ASSUME NEW f, NEW g, NEW items \in Seq(MenuItems), NEW level \in Int,
             \A c \in Seq(Leaves), l \in Int : f[c][l] = g[c][l]
      PROVE  gives(f, items, level) = gives(g, items, level)
  <2>1. \A i \in DOMAIN items : items[i].children \in Seq(Leaves)
    <3>1. \A i \in DOMAIN items : items[i] \in MenuItems
      OBVIOUS
    <3> QED
      BY <3>1, ItemsBelow
  <2>2. \A i \in DOMAIN items : below(f, items, level, i) = below(g, items, level, i)
    BY <1>3, <2>1
  <2>3. PICK h : h = here(f, items, level)
    OBVIOUS
  <2>4. h = here(g, items, level)
    BY <2>2, <2>3
  <2>5. CASE h = {}
    BY <2>3, <2>4, <2>5
  <2>6. CASE h # {}
    <3>1. Len(items) \in Nat /\ h \subseteq 1 .. Len(items) /\ DOMAIN items = 1 .. Len(items)
      BY <2>3
    <3>2. PICK i : i = First(h) /\ i \in DOMAIN items
      BY <2>6, <3>1, FirstIs
    <3> HIDE DEF below, here, inside
    <3> QED
      BY <2>2, <2>3, <2>4, <2>6, <3>2
  <2> QED
    BY <2>5, <2>6
<1>4. ASSUME NEW f, NEW items, NEW level, gives(f, items, level) # None
      PROVE  \E i \in DOMAIN items : \/ level = 0 /\ isActive(items[i].path)
                                     \/ hasActiveChild[items[i].children]
                                          \/ below(f, items, level, i) # None
  <2>1. here(f, items, level) # {}
    BY <1>4
  <2> QED
    BY <2>1
<1> HIDE DEF gives
<1>5. findChildren = all(findChildren)
  <2>1. PICK g : g = some
    OBVIOUS
  <2>2. PICK f : f = found
    OBVIOUS
  <2>3. \A c \in Seq(Leaves), l \in Int : g[c][l] = ofLeaves(c, l)
    BY <2>1, ItemsBelow
  <2>4. \A items \in Seq(MenuItems), level \in Int : f[items][level] = gives(g, items, level)
    BY <2>1, <2>2
  <2>5. \A c \in Seq(Leaves), l \in Int : f[c][l] = g[c][l]
    BY <1>2, <2>3, <2>4, ItemsBelow
  <2>6. \A items \in Seq(MenuItems), level \in Int : gives(f, items, level) = gives(g, items, level)
    BY <1>3, <2>5
  <2>7. f = all(f)
    BY <2>1, <2>2, <2>6
  <2> HIDE DEF all
  <2> QED
    BY <1>1, <2>7
<1>6. PICK f : f = findChildren
  OBVIOUS
<1>7. \A items \in Seq(MenuItems), level \in Int : f[items][level] = gives(f, items, level)
  <2>1. f = all(f)
    BY <1>5, <1>6
  <2>2. ASSUME NEW items \in Seq(MenuItems)
        PROVE f[items] = [level \in Int |-> gives(f, items, level)]
    <3>1. PICK g : g = f
      OBVIOUS
    <3>2. f[items] = [level \in Int |-> gives(g, items, level)]
      BY <2>1, <3>1
    <3> QED
      BY <3>1, <3>2
  <2> QED
    BY <2>2
<1>8. ASSUME NEW items \in Seq(MenuItems), NEW level \in Int, getChildren(items, level) # None
      PROVE  OnTheWay(items) # {}
  <2>1. gives(f, items, level) # None
    BY <1>6, <1>7, <1>8 DEF getChildren
  <2>2. PICK i \in DOMAIN items : \/ level = 0 /\ isActive(items[i].path)
                                  \/ hasActiveChild[items[i].children]
                                       \/ below(f, items, level, i) # None
    BY <1>4, <2>1
  <2>3. items[i] \in MenuItems
    OBVIOUS
  <2>4. PICK c \in Seq(Leaves) : c = items[i].children /\ c \in Seq(MenuItems)
    BY <2>3, ItemsBelow
  <2>5. hasActiveChild[c] => ActiveIn(c) # {}
    BY <2>4, HasActive, NothingBelow
  <2>6. below(f, items, level, i) # None => ActiveIn(c) # {}
    <3>1. level - 1 \in Int
      OBVIOUS
    <3>2. below(f, items, level, i) = ofLeaves(c, level - 1)
      BY <1>2, <1>7, <2>4, <3>1
    <3> QED
      BY <3>2
  <2> HIDE DEF below
  <2> QED
    BY <2>2, <2>4, <2>5, <2>6 DEF OnTheWay
<1> QED
  BY <1>8

\* The links of the menus are paths.
LEMMA LinksAre ==
  ASSUME Sound
  PROVE  \A items \in Seq(MenuItems) : buildMenuChildren[items] \subseteq Paths \cup {None}
<1> DEFINE link(f, item) == IF item.children = <<>> THEN {item.path} ELSE f[item.children]
           builds(f, items) == UNION {link(f, items[i]) : i \in DOMAIN items}
           all(f) == [items \in Seq(MenuItems) |-> UNION {link(f, items[i]) : i \in DOMAIN items}]
           paths(c) == {c[i].path : i \in DOMAIN c}
           some == [c \in Seq(MenuItems) |-> paths(c)]
           found == [items \in Seq(MenuItems) |-> builds(some, items)]
<1>1. buildMenuChildren = CHOOSE f : f = all(f)
  BY DEF buildMenuChildren
<1>2. ASSUME NEW f, NEW c \in Seq(Leaves)  PROVE builds(f, c) = paths(c)
  <2>1. \A i \in DOMAIN c : link(f, c[i]) = {c[i].path}
    BY ItemsBelow
  <2> HIDE DEF link
  <2>2. \A x : x \in builds(f, c) <=> \E i \in DOMAIN c : x \in link(f, c[i])
    OBVIOUS
  <2>3. \A x : x \in paths(c) <=> \E i \in DOMAIN c : x = c[i].path
    OBVIOUS
  <2>4. \A x : x \in builds(f, c) <=> x \in paths(c)
    BY <2>1, <2>2, <2>3
  <2> HIDE DEF builds, paths
  <2> QED
    BY <2>4
<1>3. ASSUME NEW items \in Seq(MenuItems), NEW i \in DOMAIN items
      PROVE  items[i] \in MenuItems /\ items[i].children \in Seq(Leaves)
             /\ items[i].children \in Seq(MenuItems)
  <2>1. items[i] \in MenuItems
    OBVIOUS
  <2> QED
    BY <2>1, ItemsBelow
<1>4. ASSUME NEW f, NEW g, NEW items \in Seq(MenuItems), \A c \in Seq(Leaves) : f[c] = g[c]
      PROVE  builds(f, items) = builds(g, items)
  <2>1. \A i \in DOMAIN items : link(f, items[i]) = link(g, items[i])
    BY <1>3, <1>4
  <2> QED
    BY <2>1
<1>5. \A f : all(f) = [items \in Seq(MenuItems) |-> builds(f, items)]
  OBVIOUS
<1> HIDE DEF builds, all
<1>6. buildMenuChildren = all(buildMenuChildren)
  <2>1. PICK g : g = some
    OBVIOUS
  <2>2. PICK f : f = found
    OBVIOUS
  <2>3. \A c \in Seq(Leaves) : f[c] = g[c]
    BY <1>2, <2>1, <2>2, ItemsBelow
  <2>4. \A items \in Seq(MenuItems) : builds(f, items) = builds(g, items)
    BY <1>4, <2>3
  <2>5. f = all(f)
    BY <1>5, <2>1, <2>2, <2>4
  <2> QED
    BY <1>1, <2>5
<1>7. \A items \in Seq(MenuItems) : buildMenuChildren[items] = builds(buildMenuChildren, items)
  <2>1. PICK f : f = buildMenuChildren
    OBVIOUS
  <2>2. f = [items \in Seq(MenuItems) |-> builds(f, items)]
    BY <1>5, <1>6, <2>1
  <2>3. \A items \in Seq(MenuItems) : f[items] = builds(f, items)
    <3>1. PICK g : g = f
      OBVIOUS
    <3>2. \A items \in Seq(MenuItems) : f[items] = builds(g, items)
      BY <2>2, <3>1
    <3> QED
      BY <3>1, <3>2
  <2> QED
    BY <2>1, <2>3
<1>8. ASSUME NEW c \in Seq(Leaves)  PROVE buildMenuChildren[c] \subseteq Paths \cup {None}
  <2>1. buildMenuChildren[c] = paths(c)
    BY <1>2, <1>7, ItemsBelow
  <2>2. \A i \in DOMAIN c : c[i] \in MenuItems
    BY ItemsBelow
  <2> QED
    BY <2>1, <2>2, ItemsBelow
<1>9. ASSUME NEW items \in Seq(MenuItems)
      PROVE builds(buildMenuChildren, items) \subseteq Paths \cup {None}
  <2>1. ASSUME NEW i \in DOMAIN items
        PROVE link(buildMenuChildren, items[i]) \subseteq Paths \cup {None}
    BY <1>3, <1>8, ItemsBelow
  <2> QED
    BY <2>1 DEF builds
<1> QED
  BY <1>7, <1>9

\* An item is within itself, and so are its children.
LEMMA WithinIs ==
  ASSUME Sound, NEW top \in MenuItems
  PROVE  top \in Within[top] /\ \A i \in DOMAIN top.children : top.children[i] \in Within[top]
<1> DEFINE holds(f, item) == {item} \cup UNION {f[item.children[i]] : i \in DOMAIN item.children}
           all(f) == [item \in MenuItems |-> holds(f, item)]
           found == [item \in MenuItems |-> {item} \cup {item.children[i] : i \in DOMAIN item.children}]
<1>1. Within = CHOOSE f : f = all(f)
  BY DEF Within
<1>2. ASSUME NEW item \in MenuItems, NEW i \in DOMAIN item.children
      PROVE  item.children[i] \in MenuItems /\ item.children[i].children = <<>>
  <2>1. PICK c \in Seq(Leaves) : c = item.children
    BY ItemsBelow
  <2>2. c[i] \in Leaves
    BY <2>1
  <2> QED
    BY <2>1, <2>2, ItemsBelow
<1>3. \A leaf \in MenuItems : leaf.children = <<>> => found[leaf] = {leaf}
  OBVIOUS
<1>4. ASSUME NEW item \in MenuItems  PROVE found[item] = holds(found, item)
  <2>1. \A i \in DOMAIN item.children : found[item.children[i]] = {item.children[i]}
    BY <1>2, <1>3
  <2>2. PICK f : f = found
    OBVIOUS
  <2>3. holds(f, item) = {item} \cup {item.children[i] : i \in DOMAIN item.children}
    <3>1. \A i \in DOMAIN item.children : f[item.children[i]] = {item.children[i]}
      BY <2>1, <2>2
    <3>2. \A x : x \in UNION {f[item.children[i]] : i \in DOMAIN item.children}
                   <=> \E i \in DOMAIN item.children : x \in f[item.children[i]]
      OBVIOUS
    <3>3. \A x : x \in UNION {f[item.children[i]] : i \in DOMAIN item.children}
                   <=> x \in {item.children[i] : i \in DOMAIN item.children}
      BY <3>1, <3>2
    <3> QED
      BY <3>3
  <2> QED
    BY <2>2, <2>3
<1>5. ASSUME NEW f, NEW item  PROVE item \in holds(f, item)
      /\ \A i \in DOMAIN item.children : f[item.children[i]] \subseteq holds(f, item)
  OBVIOUS
<1> HIDE DEF holds
<1>6. \A item \in MenuItems : Within[item] = holds(Within, item)
  <2>1. PICK f : f = found
    OBVIOUS
  <2>2. f = all(f)
    BY <1>4, <2>1
  <2>3. PICK g : g = Within
    OBVIOUS
  <2>4. g = all(g)
    <3> HIDE DEF all
    <3> QED
      BY <1>1, <2>2, <2>3
  <2>5. \A item \in MenuItems : g[item] = holds(g, item)
    BY <2>4
  <2> QED
    BY <2>3, <2>5
<1>7. \A item \in MenuItems : item \in Within[item]
  BY <1>5, <1>6
<1>8. ASSUME NEW i \in DOMAIN top.children  PROVE top.children[i] \in Within[top]
  <2>1. top.children[i] \in Within[top.children[i]]
    BY <1>2, <1>7
  <2> QED
    BY <1>5, <1>6, <2>1
<1> QED
  BY <1>7, <1>8

\* Two crumbs, one after the other.
LEMMA AfterIt == ASSUME NEW a, NEW b PROVE Append(<<a>>, b) = <<a, b>>
<1>1. <<a>> \in Seq({a, b}) /\ b \in {a, b}
  OBVIOUS
<1>2. Append(<<a>>, b) \in Seq({a, b}) /\ Len(Append(<<a>>, b)) = 2
  BY <1>1
<1>3. Append(<<a>>, b)[1] = a /\ Append(<<a>>, b)[2] = b
  BY <1>1
<1>4. PICK s \in Seq({a, b}) : s = Append(<<a>>, b)
  BY <1>2
<1>5. Len(s) = 2 /\ s[1] = a /\ s[2] = b
  BY <1>2, <1>3, <1>4
<1>6. s = <<a, b>>
  BY <1>5
<1> QED
  BY <1>4, <1>6

\* At most two crumbs: the way from the top.
LEMMA CrumbsAre ==
  ASSUME Sound, NEW items \in Seq(MenuItems)
  PROVE  /\ OnTheWay(items) = {} => getBreadcrumb(items) = <<>> /\ Current(items) = None
         /\ OnTheWay(items) # {} => \E item \in MenuItems :
              /\ \E i \in DOMAIN items : items[i] = item
              /\ isActive(item.path) \/ ActiveIn(item.children) # {}
              /\ Current(items) = IF ActiveIn(item.children) # {} THEN FirstActive(item.children) ELSE item
              /\ getBreadcrumb(items) = IF isActive(item.path) THEN <<item>>
                                        ELSE <<item, FirstActive(item.children)>>
<1>1. getBreadcrumb(items) = Way(items, <<>>)
  BY WayFound
<1>2. CASE OnTheWay(items) = {}
  BY <1>1, <1>2 DEF Way, Current
<1>3. CASE OnTheWay(items) # {}
  <2>1. PICK item : item = items[First(OnTheWay(items))]
    OBVIOUS
  <2>2. Len(items) \in Nat /\ OnTheWay(items) \subseteq 1 .. Len(items)
        /\ DOMAIN items = 1 .. Len(items)
    BY DEF OnTheWay
  <2>3. PICK i : i = First(OnTheWay(items)) /\ i \in OnTheWay(items)
    BY <1>3, <2>2, FirstIs
  <2>4. i \in DOMAIN items /\ (isActive(items[i].path) \/ ActiveIn(items[i].children) # {})
    BY <2>3 DEF OnTheWay
  <2>5. item = items[i] /\ item \in MenuItems
    BY <2>1, <2>3, <2>4
  <2>6. Current(items) = IF ActiveIn(item.children) # {} THEN FirstActive(item.children) ELSE item
    BY <1>3, <2>1 DEF Current
  <2>7. Append(<<>>, item) = <<item>>
    OBVIOUS
  <2>8. PICK child : child = FirstActive(item.children)
    OBVIOUS
  <2>9. Append(<<item>>, child) = <<item, child>>
    BY AfterIt
  <2>10. getBreadcrumb(items) = IF isActive(item.path) THEN <<item>> ELSE <<item, FirstActive(item.children)>>
    BY <1>1, <1>3, <2>1, <2>7, <2>8, <2>9 DEF Way
  <2> QED
    BY <1>3, <2>4, <2>5, <2>6, <2>10
<1> QED
  BY <1>2, <1>3

\* The type is kept: crumbs and links have paths of the menu.
LEMMA MenuStays == ASSUME Sound, TypeOK, Next PROVE TypeOK'
<1>1. db \in Seq(MenuItems)
  BY ItemsBelow DEF TypeOK
<1>2. buildMenu \subseteq Paths
  <2>1. menuConfig \in Seq(MenuItems)
    <3>1. PICK n \in 1 .. Width : db \in [1 .. n -> MenuItems]
      BY DEF TypeOK, UpToWidth
    <3>2. 1 \in 1 .. n
      BY <3>1 DEF Sound
    <3>3. \A i \in 1 .. 1 : db[i] \in MenuItems
      BY <3>1, <3>2
    <3>4. SubSeq(db, 1, 1) \in Seq(MenuItems)
      BY <3>3, SubSeqProperties
    <3> QED
      BY <1>1, <3>4 DEF menuConfig
  <2> QED
    BY <2>1, LinksAre DEF buildMenu
<1>3. ToolbarBreadcrumbs \subseteq Paths
  <2>1. ASSUME NEW i \in DOMAIN getBreadcrumb(db)
        PROVE getBreadcrumb(db)[i].path \in Paths \cup {None}
    <3>1. CASE OnTheWay(db) = {}
      BY <1>1, <2>1, <3>1, CrumbsAre
    <3>2. CASE OnTheWay(db) # {}
      <4>1. PICK item \in MenuItems :
              /\ isActive(item.path) \/ ActiveIn(item.children) # {}
              /\ getBreadcrumb(db) = IF isActive(item.path) THEN <<item>> ELSE <<item, FirstActive(item.children)>>
        BY <1>1, <3>2, CrumbsAre
      <4>2. ~isActive(item.path) => FirstActive(item.children) \in MenuItems
        BY <4>1, ItemsBelow, FirstActiveIs
      <4>3. CASE isActive(item.path)
        <5>1. getBreadcrumb(db) = <<item>>
          BY <4>1, <4>3
        <5>2. i = 1
          BY <2>1, <5>1
        <5> QED
          BY <5>1, <5>2, ItemsBelow
      <4>4. CASE ~isActive(item.path)
        <5>1. PICK child \in MenuItems : getBreadcrumb(db) = <<item, child>>
          BY <4>1, <4>2, <4>4
        <5>2. i \in {1, 2}
          BY <2>1, <5>1
        <5> QED
          BY <5>1, <5>2, ItemsBelow
      <4> QED
        BY <4>3, <4>4
    <3> QED
      BY <3>1, <3>2
  <2> QED
    BY <2>1 DEF ToolbarBreadcrumbs
<1> QED
  BY <1>2, <1>3 DEF TypeOK, Next, Navigate

\* The heading and the crumbs are of one item, wherever the user is in whichever menu.
LEMMA MenuAgrees == ASSUME Sound, TypeOK PROVE HeadingAndCrumbsAgree
<1>1. db \in Seq(MenuItems) /\ \A i \in DOMAIN db : db[i] \in MenuItems
  BY ItemsBelow DEF TypeOK
<1>2. ToolbarHeading = Current(db)
  BY <1>1, CurrentFound DEF ToolbarHeading
<1>3. \A i \in DOMAIN db : isItemActive(db[i]) <=> i \in OnTheWay(db)
  <2>1. ASSUME NEW i \in DOMAIN db
        PROVE hasActiveChild[db[i].children] <=> ActiveIn(db[i].children) # {}
    BY <1>1, HasActive, ItemsBelow, NothingBelow
  <2> QED
    BY <2>1 DEF isItemActive, OnTheWay
<1>4. \A level \in 0..1 : getChildren(db, level) # None => OnTheWay(db) # {}
  BY <1>1, ChildrenFound
<1>5. (\A i \in DOMAIN db : ~isItemActive(db[i])) <=> OnTheWay(db) = {}
  BY <1>3 DEF OnTheWay
<1>6. CASE OnTheWay(db) = {}
  <2>1. getBreadcrumb(db) = <<>> /\ ToolbarHeading = None
    BY <1>1, <1>2, <1>6, CrumbsAre
  <2> QED
    BY <1>4, <1>5, <1>6, <2>1 DEF HeadingAndCrumbsAgree
<1>7. CASE OnTheWay(db) # {}
  <2>1. PICK item \in MenuItems :
          /\ isActive(item.path) \/ ActiveIn(item.children) # {}
          /\ ToolbarHeading = IF ActiveIn(item.children) # {} THEN FirstActive(item.children) ELSE item
          /\ getBreadcrumb(db) = IF isActive(item.path) THEN <<item>> ELSE <<item, FirstActive(item.children)>>
    BY <1>1, <1>2, <1>7, CrumbsAre
  <2>2. item.children \in Seq(Leaves) /\ None \notin MenuItems /\ Leaves \subseteq MenuItems
    BY ItemsBelow DEF Sound
  <2>3. ASSUME ActiveIn(item.children) # {}
        PROVE  /\ FirstActive(item.children) \in MenuItems
               /\ isActive(FirstActive(item.children).path)
               /\ \E i \in DOMAIN item.children : FirstActive(item.children) = item.children[i]
    BY <2>2, <2>3, FirstActiveIs
  <2>4. ToolbarHeading # None /\ ToolbarHeading \in Within[item]
    BY <2>1, <2>2, <2>3, WithinIs
  <2>5. PICK crumbs : crumbs = getBreadcrumb(db)
    OBVIOUS
  <2>6. /\ crumbs # <<>> /\ ToolbarHeading \in Within[crumbs[Len(crumbs)]]
        /\ \A i \in DOMAIN crumbs : isActive(crumbs[i].path) <=> i = Len(crumbs)
    <3>1. CASE isActive(item.path)
      <4>1. crumbs = <<item>>
        BY <2>1, <2>5, <3>1
      <4>2. Len(crumbs) = 1 /\ crumbs[1] = item /\ DOMAIN crumbs = {1}
        BY <4>1
      <4> QED
        BY <2>4, <3>1, <4>1, <4>2
    <3>2. CASE ~isActive(item.path)
      <4>1. PICK child \in MenuItems : child = FirstActive(item.children) /\ isActive(child.path)
        BY <2>1, <2>3, <3>2
      <4>2. crumbs = <<item, child>> /\ ToolbarHeading = child
        BY <2>1, <2>5, <3>2, <4>1
      <4>3. Len(crumbs) = 2 /\ crumbs[1] = item /\ crumbs[2] = child /\ DOMAIN crumbs = {1, 2}
        BY <4>2
      <4>4. child \in Within[child]
        BY WithinIs
      <4> QED
        BY <3>2, <4>1, <4>2, <4>3, <4>4
    <3> QED
      BY <3>1, <3>2
  <2> QED
    BY <1>4, <1>5, <1>7, <2>4, <2>5, <2>6 DEF HeadingAndCrumbsAgree
<1> QED
  BY <1>6, <1>7

\* At the start the user is at the top.
LEMMA MenuStarts == ASSUME Sound, Init PROVE TypeOK
BY DEF Sound, Init, TypeOK

\* Heading, breadcrumbs and lists below them agree at any time, for any paths and any
\* width of the menu: the three searches go down the tree alike.
THEOREM MenuIsOne == ASSUME Sound PROVE Spec => [](TypeOK /\ HeadingAndCrumbsAgree)
<1>1. TypeOK /\ UNCHANGED vars => TypeOK'
  BY DEF TypeOK, vars
<1>2. TypeOK /\ [Next]_vars => TypeOK'
  BY <1>1, MenuStays
<1> QED
  BY <1>2, MenuStarts, MenuAgrees, PTL DEF Spec

=============================================================================

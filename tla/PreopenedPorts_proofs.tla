----------------------- MODULE PreopenedPorts_proofs -----------------------
(***************************************************************************)
(* What PreopenedPorts guarantees for any number of devices, entries and   *)
(* descriptors, and however the pointers of the list go astray: the data   *)
(* in the entries stay right.  An entry that is lost keeps its descriptor  *)
(* open, so that its number is not used again.                             *)
(*                                                                         *)
(* Careful clients, who have at most two ports set up at once and use the  *)
(* younger first, have a list that is sound, and settings that are kept    *)
(* until open(): PreopenedPorts implements SetUpPorts for them.            *)
(***************************************************************************)
EXTENDS PreopenedPorts, WellFoundedInduction, FiniteSetTheorems, TLAPS

Entry == [filename : Name \union {None}, fd : FD \union {0},
          next : Node \union {NULL}, prev : Node \union {NULL}]

ListType(L) ==
  /\ L = [node |-> L.node, alloc |-> L.alloc, head |-> L.head]
  /\ L.node \in [Node -> Entry]
  /\ L.alloc \subseteq Node /\ L.head \in Node \union {NULL}

(* The entries of list L and the ports in po share no descriptor, and each *)
(* descriptor is open, by f, on the device of its entry or port.           *)
Sound(L, f, po) ==
  /\ \A p \in L.alloc : L.node[p].filename \in Name /\ L.node[p].fd \in FD
                          /\ f[L.node[p].fd] = L.node[p].filename
  /\ \A p, q \in L.alloc : p # q => L.node[p].fd # L.node[q].fd
  /\ \A p \in L.alloc, n \in Name : L.node[p].fd # po[n]
  /\ \A n \in Name : po[n] # 0 => f[po[n]] = n

IndInv == TypeOK /\ ListType(list) /\ Sound(list, file, port)

(* IndInv holds at the start. *)
LEMMA InitInv == Init => IndInv
<1> SUFFICES ASSUME Init PROVE IndInv
  OBVIOUS
<1>1. Blank \in Entry
  BY DEF Blank, Entry
<1>2. ListType(list)
  BY <1>1 DEF Init, ListType
<1>3. Sound(list, file, port)
  BY DEF Init, Sound
<1>4. setting \in [Name -> Setting]
  BY DEF Init, Setting
<1>5. TypeOK
  BY <1>2, <1>4 DEF Init, TypeOK, ListType, Entry
<1>6. QED
  BY <1>2, <1>3, <1>5 DEF IndInv

(* Taking an entry out of the list leaves the data of the others alone. *)
LEMMA UnlinkedKeeps ==
  ASSUME NEW L, ListType(L), NEW p \in L.alloc
  PROVE  LET M == Unlinked(L, p)
         IN /\ ListType(M)
            /\ M.alloc = L.alloc \ {p}
            /\ \A q \in M.alloc : /\ M.node[q].fd = L.node[q].fd
                                  /\ M.node[q].filename = L.node[q].filename
<1> DEFINE M == Unlinked(L, p)
           e == L.node[p]
<1>1. e \in Entry /\ p \in Node
  BY DEF ListType
<1>2. Blank \in Entry
  BY DEF Blank, Entry
<1>3. \A q \in Node : /\ L.node[q] \in Entry
                      /\ [L.node[q] EXCEPT !.next = e.next] \in Entry
                      /\ [L.node[q] EXCEPT !.prev = e.prev] \in Entry
  BY <1>1 DEF ListType, Entry
<1>4. M.node \in [Node -> Entry] /\ M.alloc = L.alloc \ {p} /\ M.head \in Node \union {NULL}
  BY <1>2, <1>3 DEF Unlinked, ListType
<1>5. \A q \in M.alloc : M.node[q].fd = L.node[q].fd /\ M.node[q].filename = L.node[q].filename
  <2> SUFFICES ASSUME NEW q \in M.alloc
               PROVE  M.node[q].fd = L.node[q].fd /\ M.node[q].filename = L.node[q].filename
    OBVIOUS
  <2>1. q \in Node /\ q # p /\ L.node[q] \in Entry
    BY <1>4 DEF ListType
  <2>2. M.node[q] = IF q = e.prev THEN [L.node[q] EXCEPT !.next = e.next]
                    ELSE IF q = e.next THEN [L.node[q] EXCEPT !.prev = e.prev]
                    ELSE L.node[q]
    BY <2>1 DEF Unlinked
  <2>3. QED
    BY <2>1, <2>2 DEF Entry
<1>6. M = [node |-> M.node, alloc |-> M.alloc, head |-> M.head]
  BY DEF Unlinked
<1>7. QED
  BY <1>4, <1>5, <1>6 DEF ListType

(* A list is as sound without one of its entries. *)
LEMMA UnlinkedSound ==
  ASSUME NEW L, ListType(L), NEW f, NEW po, Sound(L, f, po), NEW p \in L.alloc
  PROVE  Sound(Unlinked(L, p), f, po)
BY UnlinkedKeeps DEF Sound

(* A new entry leaves the data of the others alone. *)
LEMMA AddFilenameKeeps ==
  ASSUME NEW L, ListType(L), NEW n \in Name, NEW fd \in FD, AddFilename(L, n, fd)
  PROVE  /\ ListType(list')
         /\ \E new \in Node \ L.alloc :
              /\ list'.alloc = L.alloc \union {new}
              /\ list'.node[new].fd = fd /\ list'.node[new].filename = n
              /\ \A q \in L.alloc : /\ list'.node[q].fd = L.node[q].fd
                                    /\ list'.node[q].filename = L.node[q].filename
<1>1. PICK new \in Node \ L.alloc :
        \/ /\ L.head = NULL
           /\ list' = [node  |-> [L.node EXCEPT ![new] =
                                    [filename |-> n, fd |-> fd, next |-> NULL, prev |-> NULL]],
                       alloc |-> L.alloc \union {new},
                       head  |-> new]
        \/ \E q \in L.alloc :
             /\ IsLast(L, q)
             /\ list' = [node  |-> [L.node EXCEPT ![q].next = new, ![new] =
                                      [filename |-> n, fd |-> fd, next |-> NULL, prev |-> q]],
                         alloc |-> L.alloc \union {new},
                         head  |-> q]
  BY DEF AddFilename
<1>2. CASE /\ L.head = NULL
           /\ list' = [node  |-> [L.node EXCEPT ![new] =
                                    [filename |-> n, fd |-> fd, next |-> NULL, prev |-> NULL]],
                       alloc |-> L.alloc \union {new},
                       head  |-> new]
  BY <1>2 DEF ListType, Entry
<1>3. ASSUME NEW q \in L.alloc,
             list' = [node  |-> [L.node EXCEPT ![q].next = new, ![new] =
                                   [filename |-> n, fd |-> fd, next |-> NULL, prev |-> q]],
                      alloc |-> L.alloc \union {new},
                      head  |-> q]
      PROVE  /\ ListType(list')
             /\ list'.alloc = L.alloc \union {new}
             /\ list'.node[new].fd = fd /\ list'.node[new].filename = n
             /\ \A r \in L.alloc : /\ list'.node[r].fd = L.node[r].fd
                                   /\ list'.node[r].filename = L.node[r].filename
  BY <1>3 DEF ListType, Entry
<1>4. QED
  BY <1>1, <1>2, <1>3

(* An entry whose descriptor nothing else has may be added. *)
LEMMA AddFilenameSound ==
  ASSUME NEW L, ListType(L), NEW f, NEW po, Sound(L, f, po),
         NEW n \in Name, NEW fd \in FD, AddFilename(L, n, fd), f[fd] = n,
         \A p \in L.alloc : L.node[p].fd # fd, \A m \in Name : po[m] # fd
  PROVE  ListType(list') /\ Sound(list', f, po)
BY AddFilenameKeeps DEF Sound

(* The descriptor that open(2) returns is nobody's. *)
LEMMA Opened ==
  ASSUME IndInv, NEW n \in Name, NEW fd \in FD, OpenDevice(n, fd)
  PROVE  /\ file' \in [FD -> Name \union {None}] /\ file'[fd] = n
         /\ \A p \in list.alloc : list.node[p].fd # fd
         /\ \A m \in Name : port[m] # fd
         /\ Sound(list, file', port)
<1>1. file[fd] = None /\ file' = [file EXCEPT ![fd] = n] /\ file \in [FD -> Name \union {None}]
  BY DEF OpenDevice, IsFree, IndInv, TypeOK
<1>2. fd # 0 /\ None \notin Name
  BY PreopenedAssumption
<1>3. \A p \in list.alloc : list.node[p].fd # fd /\ list.node[p].fd \in FD
  BY <1>1, <1>2 DEF IndInv, Sound
<1>4. \A m \in Name : port[m] # fd /\ port[m] \in FD \union {0}
  BY <1>1, <1>2 DEF IndInv, Sound, TypeOK
<1>5. QED
  BY <1>1, <1>3, <1>4 DEF IndInv, Sound

(* What a static call or open() makes of the settings is a setting. *)
LEMMA SettingType ==
  ASSUME TypeOK, NEW n \in Name
  PROVE  /\ Configured(n) \in Setting
         /\ \A s \in Setting, c \in Change : Changed(s, c) \in Setting
<1>1. Configured(n) \in Setting
  BY DEF Configured, Setting, TypeOK
<1>2. ASSUME NEW s \in Setting, NEW c \in Change
      PROVE  Changed(s, c) \in Setting
  <2>1. CASE c \in [params : Params]
    BY <2>1 DEF Changed, Setting
  <2>2. CASE c \in [line : Line, on : BOOLEAN]
    BY <2>2 DEF Changed, Setting
  <2>3. QED
    BY <2>1, <2>2 DEF Change
<1>3. QED
  BY <1>1, <1>2

(* IndInv is kept by every step. *)
LEMMA NextInv == IndInv /\ [Next]_vars => IndInv'
<1> SUFFICES ASSUME IndInv, [Next]_vars PROVE IndInv'
  OBVIOUS
<1>0. CASE UNCHANGED vars
  BY <1>0 DEF vars, IndInv, TypeOK, ListType, Sound
<1> USE DEF Calls
<1>1. ASSUME NEW n \in Name, NEW c \in Change, SetUpKept(n, c) PROVE IndInv'
  <2>1. PICK p \in list.alloc :
          FindsAt(list, n, p) /\ AddFilename(Unlinked(list, p), n, list.node[p].fd)
    BY <1>1 DEF SetUpKept
  <2> DEFINE M == Unlinked(list, p)
             fd == list.node[p].fd
  <2>2. ListType(M) /\ Sound(M, file, port)
    BY UnlinkedKeeps, UnlinkedSound DEF IndInv
  <2>3. M.alloc = list.alloc \ {p} /\ \A q \in M.alloc : M.node[q].fd = list.node[q].fd
    BY UnlinkedKeeps DEF IndInv
  <2>4. /\ fd \in FD /\ file[fd] = n
        /\ \A q \in M.alloc : M.node[q].fd # fd
        /\ \A m \in Name : port[m] # fd
    BY <2>1, <2>3 DEF IndInv, Sound, FindsAt
  <2>5. ListType(list') /\ Sound(list', file, port)
    <3> HIDE DEF M, fd
    <3>1. AddFilename(M, n, fd)
      BY <2>1 DEF M, fd
    <3>2. QED
      BY <2>2, <2>4, <3>1, AddFilenameSound
  <2>6. setting' \in [Name -> Setting]
    BY <1>1, SettingType DEF SetUpKept, IndInv, TypeOK
  <2>7. QED
    BY <1>1, <2>5, <2>6 DEF SetUpKept, IndInv, TypeOK, ListType, Entry
<1>2. ASSUME NEW n \in Name, NEW c \in Change, SetUpNew(n, c) PROVE IndInv'
  <2>1. PICK fd \in FD : OpenDevice(n, fd) /\ AddFilename(list, n, fd)
    BY <1>2 DEF SetUpNew
  <2>2. /\ file' \in [FD -> Name \union {None}] /\ file'[fd] = n
        /\ \A p \in list.alloc : list.node[p].fd # fd
        /\ \A m \in Name : port[m] # fd
        /\ Sound(list, file', port)
    BY <2>1, Opened
  <2>3. ListType(list') /\ Sound(list', file', port)
    BY <2>1, <2>2, AddFilenameSound DEF IndInv
  <2>4. setting' \in [Name -> Setting]
    BY <1>2, SettingType DEF SetUpNew, IndInv, TypeOK
  <2>5. QED
    BY <1>2, <2>2, <2>3, <2>4 DEF SetUpNew, IndInv, TypeOK, ListType, Entry
<1>3. ASSUME NEW n \in Name, SetUpRefused(n) PROVE IndInv'
  <2>1. CASE /\ \E p \in list.alloc : FindsAt(list, n, p) /\ list' = Unlinked(list, p)
             /\ UNCHANGED <<file, setting>>
    <3>1. ListType(list') /\ Sound(list', file, port)
      BY <2>1, UnlinkedKeeps, UnlinkedSound DEF IndInv
    <3>2. QED
      BY <1>3, <2>1, <3>1 DEF SetUpRefused, IndInv, TypeOK, ListType, Entry
  <2>2. CASE /\ \E fd \in FD : OpenDevice(n, fd)
             /\ setting' = [setting EXCEPT ![n] = Configured(n)]
             /\ UNCHANGED list
    <3>1. file' \in [FD -> Name \union {None}] /\ Sound(list, file', port)
      BY <2>2, Opened
    <3>2. setting' \in [Name -> Setting]
      BY <2>2, SettingType DEF IndInv, TypeOK
    <3>3. QED
      BY <1>3, <2>2, <3>1, <3>2 DEF SetUpRefused, IndInv, TypeOK
  <2>3. QED
    BY <1>3, <2>1, <2>2 DEF SetUpRefused
<1>4. ASSUME NEW n \in Name, CannotOpen(n) PROVE IndInv'
  <2>1. file' \in [FD -> Name \union {None}] /\ Sound(list, file', port)
    BY <1>4, Opened DEF CannotOpen, IndInv, TypeOK
  <2>2. QED
    BY <1>4, <2>1 DEF CannotOpen, IndInv, TypeOK
<1>5. ASSUME NEW n \in Name, Wild(n) PROVE IndInv'
  BY <1>5 DEF Wild, IndInv, TypeOK
<1>6. ASSUME NEW n \in Name, StaticIsLine(n) \/ StaticIsInput(n) \/ StaticGetParams(n)
      PROVE  IndInv'
  <2>1. ListType(list') /\ Sound(list', file, port)
    BY <1>6, UnlinkedKeeps, UnlinkedSound
    DEF StaticIsLine, StaticIsInput, StaticGetParams, TakeOut, IndInv
  <2>2. QED
    BY <1>6, <2>1
    DEF StaticIsLine, StaticIsInput, StaticGetParams, IndInv, TypeOK, ListType, Entry
<1>7. ASSUME NEW n \in Name, OpenKept(n) PROVE IndInv'
  <2>1. PICK p \in list.alloc : /\ FindsAt(list, n, p)
                                /\ port' = [port EXCEPT ![n] = list.node[p].fd]
                                /\ list' = Unlinked(list, p)
    BY <1>7 DEF OpenKept
  <2>2. ListType(list') /\ Sound(list', file, port)
    BY <2>1, UnlinkedKeeps, UnlinkedSound DEF IndInv
  <2>3. list'.alloc = list.alloc \ {p}
          /\ \A q \in list'.alloc : list'.node[q].fd = list.node[q].fd
    BY <2>1, UnlinkedKeeps DEF IndInv
  <2>4. list.node[p].fd \in FD /\ file[list.node[p].fd] = n /\ port \in [Name -> FD \union {0}]
    BY <2>1 DEF IndInv, TypeOK, Sound, FindsAt
  <2>5. \A q \in list'.alloc : list'.node[q].fd # list.node[p].fd
    BY <2>3 DEF IndInv, Sound
  <2>6. Sound(list', file, port')
    BY <2>1, <2>2, <2>4, <2>5 DEF Sound
  <2>7. QED
    BY <1>7, <2>1, <2>2, <2>4, <2>6 DEF OpenKept, IndInv, TypeOK, ListType, Entry
<1>8. ASSUME NEW n \in Name, OpenNew(n) PROVE IndInv'
  <2>1. PICK fd \in FD : OpenDevice(n, fd) /\ port' = [port EXCEPT ![n] = fd]
    BY <1>8 DEF OpenNew
  <2>2. /\ file' \in [FD -> Name \union {None}] /\ file'[fd] = n
        /\ \A p \in list.alloc : list.node[p].fd # fd
        /\ Sound(list, file', port)
    BY <2>1, Opened
  <2>3. port' \in [Name -> FD \union {0}] /\ Sound(list, file', port')
    BY <2>1, <2>2 DEF Sound, IndInv, TypeOK
  <2>4. setting' \in [Name -> Setting]
    BY <1>8, SettingType DEF OpenNew, IndInv, TypeOK
  <2>5. QED
    BY <1>8, <2>2, <2>3, <2>4 DEF OpenNew, IndInv, TypeOK
<1>9. ASSUME NEW n \in Name, NativeClose(n) PROVE IndInv'
  <2>1. /\ port[n] \in FD /\ port[n] # 0 /\ file[port[n]] = n
        /\ file' = [file EXCEPT ![port[n]] = None]
        /\ port' = [port EXCEPT ![n] = 0]
    BY <1>9 DEF NativeClose, IndInv, TypeOK, Sound
  <2>2. file' \in [FD -> Name \union {None}] /\ port' \in [Name -> FD \union {0}]
    BY <2>1 DEF IndInv, TypeOK
  <2>3. \A m \in Name : m # n /\ port[m] # 0 => port[m] \in FD /\ port[m] # port[n]
    BY <2>1 DEF IndInv, TypeOK, Sound
  <2>4. \A p \in list.alloc : list.node[p].fd # port[n] /\ list.node[p].fd # 0
    BY PreopenedAssumption DEF IndInv, Sound
  <2>5. Sound(list, file', port')
    BY <2>1, <2>3, <2>4 DEF IndInv, TypeOK, Sound
  <2>6. QED
    BY <1>9, <2>2, <2>5 DEF NativeClose, IndInv, TypeOK
<1>10. ASSUME NEW n \in Name, Refused(n) PROVE IndInv'
  BY <1>10 DEF Refused, vars, IndInv, TypeOK, ListType, Sound
<1>11. QED
  BY <1>0, <1>1, <1>2, <1>3, <1>4, <1>5, <1>6, <1>7, <1>8, <1>9, <1>10 DEF Next

(* IndInv holds in every reachable state. *)
LEMMA Invariance == Spec => []IndInv
BY InitInv, NextInv, PTL DEF Spec

(***************************************************************************)
(* Whatever is set up, queried, opened and closed, and whatever the        *)
(* pointers of find_preopened_ports and static_add_filename point to: an   *)
(* entry and an open port have a descriptor that is open on their own      *)
(* device, and that no other entry or port has.                            *)
(***************************************************************************)
THEOREM DescriptorsAreKept == Spec => []KeptDescriptors
<1>1. IndInv => KeptDescriptors
  BY PreopenedAssumption DEF IndInv, Sound, KeptDescriptors
<1>2. QED
  BY <1>1, Invariance, PTL

(* Every reachable state is well formed. *)
THEOREM TypeCorrect == Spec => []TypeOK
<1>1. IndInv => TypeOK
  BY DEF IndInv
<1>2. QED
  BY <1>1, Invariance, PTL

-----------------------------------------------------------------------------
(***************************************************************************)
(* Induction over the naturals, for a set                                  *)
(***************************************************************************)
LEMMA SetInduction ==
  ASSUME NEW S, S \subseteq Nat, 0 \in S, \A n \in S : n + 1 \in S
  PROVE  S = Nat
<1> DEFINE T == Nat \ S
<1> SUFFICES ASSUME T # {} PROVE FALSE
  OBVIOUS
<1>1. PICK x \in T : \A y \in T : ~(<<y, x>> \in OpToRel(<, Nat))
  BY WFMin, NatLessThanWellFounded
<1>2. x \in Nat /\ x # 0 /\ x - 1 \in Nat
  OBVIOUS
<1>3. <<x - 1, x>> \in OpToRel(<, Nat)
  BY <1>2 DEF OpToRel
<1>4. x - 1 \in S
  BY <1>1, <1>2, <1>3
<1> QED BY <1>2, <1>4

Positions == 0 .. Cardinality(Node)

(* w is what a loop from preopened_port visits. *)
Visits(L, w) ==
  w = [k \in Positions |->
         IF k = 0 THEN L.head
         ELSE IF w[k - 1] \in L.alloc THEN L.node[w[k - 1]].next ELSE NULL]

(* There is one such function at most. *)
LEMMA WalkIs ==
  ASSUME NEW L, NEW w, Visits(L, w)
  PROVE  Walk(L) = w
<1>1. Walk(L) = CHOOSE v : Visits(L, v)
  BY Zenon DEF Walk, Visits, Positions
<1>2. Visits(L, Walk(L))
  BY <1>1, Zenon
<1> DEFINE u == Walk(L)
           S == {k \in Nat : k \in Positions => u[k] = w[k]}
<1> HIDE DEF u
<1>3. Visits(L, u)
  BY <1>2 DEF u
<1>4. Cardinality(Node) \in Nat
  BY PreopenedAssumption, FS_CardinalityType
<1>5. 0 \in S
  BY <1>3 DEF Visits, Positions
<1>6. ASSUME NEW k \in S PROVE k + 1 \in S
  <2> SUFFICES ASSUME k + 1 \in Positions PROVE u[k + 1] = w[k + 1]
    OBVIOUS
  <2>1. k \in Positions /\ (k + 1) - 1 = k /\ k + 1 # 0
    BY <1>4 DEF Positions
  <2>2. u[k] = w[k]
    BY <2>1
  <2> QED BY <1>3, <2>1, <2>2 DEF Visits
<1>7. S = Nat
  BY <1>5, <1>6, SetInduction
<1>8. \A k \in Positions : u[k] = w[k]
  BY <1>4, <1>7 DEF Positions
<1>9. u = [k \in Positions |-> u[k]] /\ w = [k \in Positions |-> w[k]]
  BY <1>3 DEF Visits
<1> QED BY <1>8, <1>9 DEF u

(* The lists that careful calls make: no entry, one, or two *)
Empty(L) == L.alloc = {} /\ L.head = NULL

Single(L, p) ==
  /\ L.alloc = {p} /\ L.head = p
  /\ L.node[p].prev = NULL /\ L.node[p].next = NULL

Pair(L, p, q) ==
  /\ L.alloc = {p, q} /\ p # q /\ L.head = p
  /\ L.node[p].prev = NULL /\ L.node[p].next = q
  /\ L.node[q].prev = p /\ L.node[q].next = NULL
  /\ L.node[p].filename # L.node[q].filename

(* A loop through no entry sees NULL. *)
LEMMA WalkOfEmpty ==
  ASSUME NEW L, Empty(L)
  PROVE  Walk(L) = [k \in Positions |-> NULL]
<1>1. Visits(L, [k \in Positions |-> NULL])
  BY DEF Visits, Empty, Positions
<1> QED BY <1>1, WalkIs

(* A loop through one entry sees it first, and then NULL. *)
LEMMA WalkOfSingle ==
  ASSUME NEW L, NEW p \in Node, Single(L, p)
  PROVE  Walk(L) = [k \in Positions |-> IF k = 0 THEN p ELSE NULL]
<1> DEFINE w == [k \in Positions |-> IF k = 0 THEN p ELSE NULL]
<1>1. ASSUME NEW k \in Positions, k # 0
      PROVE  w[k] = IF w[k - 1] \in L.alloc THEN L.node[w[k - 1]].next ELSE NULL
  <2>1. k - 1 \in Positions
    BY <1>1, PreopenedAssumption, FS_CardinalityType DEF Positions
  <2>2. w[k - 1] \in {p, NULL} /\ w[k] = NULL
    BY <1>1, <2>1
  <2> HIDE DEF w
  <2> QED BY <2>2, PreopenedAssumption DEF Single
<1>2. \A k \in Positions : k = 0 => w[k] = L.head
  BY DEF Single
<1>3. w = [k \in Positions |-> w[k]]
  OBVIOUS
<1> HIDE DEF w
<1>4. Visits(L, w)
  BY <1>1, <1>2, <1>3 DEF Visits
<1> QED BY <1>4, WalkIs DEF w

(* Two entries are a set of two. *)
LEMMA TwoAreTwo ==
  ASSUME NEW p, NEW q, p # q
  PROVE  IsFiniteSet({p, q}) /\ Cardinality({p, q}) = 2
<1>1. IsFiniteSet({p}) /\ Cardinality({p}) = 1
  BY FS_Singleton
<1>2. q \notin {p} /\ {p} \union {q} = {p, q}
  OBVIOUS
<1> QED BY <1>1, <1>2, FS_AddElement

(* A loop through two entries sees both, and there is a place for the second. *)
LEMMA WalkOfPair ==
  ASSUME NEW L, NEW p \in Node, NEW q \in Node, Pair(L, p, q)
  PROVE  /\ Walk(L) = [k \in Positions |-> IF k = 0 THEN p ELSE IF k = 1 THEN q ELSE NULL]
         /\ 1 \in Positions
<1> DEFINE w == [k \in Positions |-> IF k = 0 THEN p ELSE IF k = 1 THEN q ELSE NULL]
<1>1. ASSUME NEW k \in Positions, k # 0
      PROVE  w[k] = IF w[k - 1] \in L.alloc THEN L.node[w[k - 1]].next ELSE NULL
  <2>1. k - 1 \in Positions /\ k \in Nat /\ k - 1 \in Nat
    BY <1>1, PreopenedAssumption, FS_CardinalityType DEF Positions
  <2>2. CASE k = 1
    <3>1. w[k - 1] = p /\ w[k] = q
      BY <2>1, <2>2
    <3> HIDE DEF w
    <3> QED BY <3>1 DEF Pair
  <2>3. CASE k # 1
    <3>1. w[k - 1] \in {q, NULL} /\ w[k] = NULL
      BY <1>1, <2>1, <2>3
    <3> HIDE DEF w
    <3> QED BY <3>1, PreopenedAssumption DEF Pair
  <2> QED BY <2>2, <2>3
<1>2. \A k \in Positions : k = 0 => w[k] = L.head
  BY DEF Pair
<1>3. w = [k \in Positions |-> w[k]]
  OBVIOUS
<1>4. Walk(L) = w
  <2> HIDE DEF w
  <2>1. Visits(L, w)
    BY <1>1, <1>2, <1>3 DEF Visits
  <2> QED BY <2>1, WalkIs
<1>5. 1 \in Positions
  <2>1. IsFiniteSet({p, q}) /\ Cardinality({p, q}) = 2
    <3>1. p # q
      BY DEF Pair
    <3> QED BY <3>1, TwoAreTwo, Zenon
  <2>2. Cardinality({p, q}) <= Cardinality(Node)
    BY PreopenedAssumption, FS_Subset
  <2> QED BY <2>1, <2>2, PreopenedAssumption, FS_CardinalityType DEF Positions
<1> QED BY <1>4, <1>5

(* What a loop finds in the three *)
LEMMA EmptyFinds ==
  ASSUME NEW L, Empty(L)
  PROVE  /\ \A n : FindsNone(L, n)
         /\ Listed(L) = {} /\ ~AddRunsWild(L)
<1> DEFINE w == Walk(L)
<1>1. DOMAIN w = Positions /\ \A k \in Positions : w[k] = NULL
  BY WalkOfEmpty
<1> HIDE DEF w
<1> QED BY <1>1 DEF FindsNone, Listed, AddRunsWild, w, Empty

(* With one entry: what is found, what is not, and what is last *)
LEMMA SingleFinds ==
  ASSUME NEW L, NEW p \in Node, Single(L, p)
  PROVE  /\ \A n : FindsNone(L, n) <=> L.node[p].filename # n
         /\ \A n, r : FindsAt(L, n, r) <=> r = p /\ L.node[p].filename = n
         /\ \A r : IsLast(L, r) <=> r = p
         /\ Listed(L) = {p} /\ ~AddRunsWild(L)
<1> DEFINE w == Walk(L)
<1>1. /\ DOMAIN w = Positions /\ 0 \in Positions /\ w[0] = p
      /\ \A k \in Positions : k # 0 => w[k] = NULL
  BY WalkOfSingle, PreopenedAssumption, FS_CardinalityType DEF Positions
<1>2. p # NULL /\ p \in L.alloc /\ L.alloc = {p} /\ L.node[p].next = NULL
  BY PreopenedAssumption DEF Single
<1> HIDE DEF w
<1>3. \A n : FindsNone(L, n) <=> L.node[p].filename # n
  BY <1>1, <1>2 DEF FindsNone, w
<1>4. \A n : Reaches(L, n, 0)
  BY DEF Reaches
<1>5. \A n, r : FindsAt(L, n, r) <=> r = p /\ L.node[p].filename = n
  BY <1>1, <1>2, <1>4 DEF FindsAt, w
<1>6. \A r : IsLast(L, r) <=> r = p
  BY <1>1, <1>2 DEF IsLast, w
<1>7. Listed(L) = {p}
  BY <1>1, <1>2 DEF Listed, w
<1>8. ~AddRunsWild(L)
  BY <1>1, <1>2 DEF AddRunsWild, w
<1> QED BY <1>3, <1>5, <1>6, <1>7, <1>8

(* The places of a loop through two entries, one by one *)
LEMMA PairWalk ==
  ASSUME NEW L, NEW p \in Node, NEW q \in Node, Pair(L, p, q)
  PROVE  /\ DOMAIN Walk(L) = Positions /\ 0 \in Positions /\ 1 \in Positions
         /\ Walk(L)[0] = p /\ Walk(L)[1] = q
         /\ \A k \in Positions : k # 0 /\ k # 1 => Walk(L)[k] = NULL
         /\ p # NULL /\ q # NULL /\ p # q /\ L.alloc = {p, q}
         /\ L.node[p].filename # L.node[q].filename
<1> DEFINE w == Walk(L)
<1>1. /\ DOMAIN w = Positions /\ 0 \in Positions /\ 1 \in Positions /\ w[0] = p /\ w[1] = q
      /\ \A k \in Positions : k # 0 /\ k # 1 => w[k] = NULL
  BY WalkOfPair, PreopenedAssumption, FS_CardinalityType DEF Positions
<1>2. /\ p # NULL /\ q # NULL /\ p # q /\ L.alloc = {p, q}
      /\ L.node[p].filename # L.node[q].filename
  BY PreopenedAssumption DEF Pair
<1> QED BY <1>1, <1>2

(* With two entries, what is not found *)
LEMMA PairFindsNone ==
  ASSUME NEW L, NEW p \in Node, NEW q \in Node, Pair(L, p, q), NEW n
  PROVE  FindsNone(L, n) <=> L.node[p].filename # n /\ L.node[q].filename # n
<1> DEFINE w == Walk(L)
<1>1. /\ DOMAIN w = Positions /\ 0 \in Positions /\ 1 \in Positions /\ w[0] = p /\ w[1] = q
      /\ \A k \in Positions : k # 0 /\ k # 1 => w[k] = NULL
      /\ p # NULL /\ q # NULL /\ L.alloc = {p, q}
  BY PairWalk
<1> HIDE DEF w
<1> QED BY <1>1 DEF FindsNone, w

(* With two entries, what is found where *)
LEMMA PairFindsAt ==
  ASSUME NEW L, NEW p \in Node, NEW q \in Node, Pair(L, p, q), NEW n, NEW r
  PROVE  FindsAt(L, n, r) <=> \/ r = p /\ L.node[p].filename = n
                              \/ r = q /\ L.node[q].filename = n
<1> DEFINE w == Walk(L)
<1>1. p # NULL /\ q # NULL /\ p # q /\ L.alloc = {p, q} /\ L.node[p].filename # L.node[q].filename
  BY PairWalk
<1>2. /\ DOMAIN w = Positions /\ 0 \in Positions /\ 1 \in Positions /\ w[0] = p /\ w[1] = q
      /\ \A k \in Positions : k # 0 /\ k # 1 => w[k] = NULL
  BY PairWalk
<1> HIDE DEF w
<1>3. Reaches(L, n, 0)
  BY DEF Reaches
<1>4. Reaches(L, n, 1) <=> L.node[p].filename # n
  BY <1>2 DEF Reaches, w
<1> QED BY <1>1, <1>2, <1>3, <1>4 DEF FindsAt, w

(* Two entries are two that can be reached. *)
LEMMA PairListed ==
  ASSUME NEW L, NEW p \in Node, NEW q \in Node, Pair(L, p, q)
  PROVE  Listed(L) = {p, q} /\ ~(Cardinality(Listed(L)) < 2)
<1> DEFINE w == Walk(L)
<1>1. /\ DOMAIN w = Positions /\ 0 \in Positions /\ 1 \in Positions /\ w[0] = p /\ w[1] = q
      /\ p # q /\ L.alloc = {p, q}
  BY PairWalk
<1> HIDE DEF w
<1>2. Listed(L) = {p, q}
  BY <1>1 DEF Listed, w
<1>3. Cardinality({p, q}) = 2
  BY <1>1, TwoAreTwo, Zenon
<1> QED BY <1>2, <1>3

Short(L) == Empty(L) \/ \E p \in Node : Single(L, p)
Shaped(L) == Short(L) \/ \E p, q \in Node : Pair(L, p, q)

(* The devices that have an entry *)
Names(L) == {L.node[p].filename : p \in L.alloc}

CarefulInv ==
  /\ careful => ~undefined /\ Shaped(list)
  /\ \A n \in Name : port[n] # 0 => n \in lock

(* The list whose younger or only entry is taken out *)
LEMMA UnlinkedIsShort ==
  ASSUME IndInv, Shaped(list), NEW n \in Name, Permitted(n),
         NEW p \in list.alloc, FindsAt(list, n, p)
  PROVE  LET M == Unlinked(list, p)
         IN Short(M) /\ Names(M) = Names(list) \ {n}
<1> DEFINE M == Unlinked(list, p)
<1>1. /\ ListType(list) /\ p \in Node
      /\ \A q \in M.alloc : M.node[q].filename = list.node[q].filename
      /\ M.alloc = list.alloc \ {p}
  BY UnlinkedKeeps DEF IndInv, ListType
<1>2. \A q \in Node : M.node[q] = IF q = p THEN Blank
                        ELSE IF q = list.node[p].prev THEN [list.node[q] EXCEPT !.next = list.node[p].next]
                        ELSE IF q = list.node[p].next THEN [list.node[q] EXCEPT !.prev = list.node[p].prev]
                        ELSE list.node[q]
  BY DEF Unlinked
<1>3. M.head = IF list.node[p].prev = NULL /\ list.node[p].next = NULL THEN NULL ELSE list.head
  BY DEF Unlinked
<1> HIDE DEF M
<1>4. CASE Empty(list)
  BY <1>4 DEF Empty
<1>5. ASSUME NEW s \in Node, Single(list, s)
      PROVE  Short(M) /\ Names(M) = Names(list) \ {n}
  <2>1. p = s /\ list.node[s].filename = n
    BY <1>5, SingleFinds
  <2>2. Empty(M)
    BY <1>1, <1>3, <1>5, <2>1 DEF Empty, Single
  <2>3. Names(M) = {} /\ Names(list) = {n}
    BY <1>5, <2>1, <2>2 DEF Names, Empty, Single
  <2> QED BY <2>2, <2>3 DEF Short
<1>6. ASSUME NEW r \in Node, NEW s \in Node, Pair(list, r, s)
      PROVE  Short(M) /\ Names(M) = Names(list) \ {n}
  <2>1. \/ p = r /\ list.node[r].filename = n
        \/ p = s /\ list.node[s].filename = n
    BY <1>6, PairFindsAt
  <2>0. Listed(list) = {r, s} /\ ~(Cardinality(Listed(list)) < 2)
    BY <1>6, PairListed
  <2>2. PICK t \in list.alloc : FindsAt(list, n, t) /\ list.node[t].next = NULL
    BY <2>0 DEF Permitted
  <2>3. t = s /\ list.node[s].filename = n
    <3>1. FindsAt(list, n, t) <=> \/ t = r /\ list.node[r].filename = n
                                  \/ t = s /\ list.node[s].filename = n
      BY <1>6, PairFindsAt
    <3> QED BY <1>6, <2>2, <3>1, PreopenedAssumption DEF Pair
  <2>4. p = s /\ r # s /\ list.alloc = {r, s} /\ list.node[r].filename # n
    BY <1>6, <2>1, <2>3 DEF Pair
  <2>5. Single(M, r)
    <3>1. M.alloc = {r} /\ M.head = r
      BY <1>1, <1>3, <1>6, <2>4, PreopenedAssumption DEF Pair
    <3>2. M.node[r] = [list.node[r] EXCEPT !.next = NULL]
      BY <1>2, <1>6, <2>4 DEF Pair
    <3>3. list.node[r] \in Entry
      BY <1>1 DEF ListType
    <3> QED BY <1>6, <3>1, <3>2, <3>3 DEF Single, Pair, Entry
  <2>6. Names(M) = Names(list) \ {n}
    BY <1>1, <2>3, <2>4 DEF Names
  <2> QED BY <1>6, <2>5, <2>6 DEF Short
<1> QED BY <1>4, <1>5, <1>6 DEF Shaped, Short, M

(* A device that is not in the list may be added to a list of one at most. *)
LEMMA ShortFindsNone ==
  ASSUME IndInv, Shaped(list), NEW n \in Name, Permitted(n), FindsNone(list, n)
  PROVE  Short(list) /\ n \notin Names(list)
<1>1. CASE Empty(list)
  BY <1>1 DEF Short, Names, Empty
<1>2. ASSUME NEW s \in Node, Single(list, s)
      PROVE  Short(list) /\ n \notin Names(list)
  <2>1. list.node[s].filename # n
    BY <1>2, SingleFinds
  <2> QED BY <1>2, <2>1 DEF Short, Names, Single
<1>3. ASSUME NEW r \in Node, NEW s \in Node, Pair(list, r, s)
      PROVE  FALSE
  <2>1. ~(Cardinality(Listed(list)) < 2)
    BY <1>3, PairListed
  <2>2. list.node[r].filename # n /\ list.node[s].filename # n
    BY <1>3, PairFindsNone
  <2>3. \A t : ~FindsAt(list, n, t)
    BY <1>3, <2>2, PairFindsAt
  <2> QED BY <2>1, <2>3 DEF Permitted
<1> QED BY <1>1, <1>2, <1>3 DEF Shaped, Short

(* static_add_filename makes one entry of none, and two of one. *)
LEMMA AddedIsShaped ==
  ASSUME NEW L, ListType(L), Short(L), NEW n \in Name, NEW fd \in FD, n \notin Names(L),
         AddFilename(L, n, fd)
  PROVE  Shaped(list') /\ Names(list') = Names(L) \union {n}
<1>1. PICK new \in Node \ L.alloc :
        \/ /\ L.head = NULL
           /\ list' = [node  |-> [L.node EXCEPT ![new] =
                                    [filename |-> n, fd |-> fd, next |-> NULL, prev |-> NULL]],
                       alloc |-> L.alloc \union {new},
                       head  |-> new]
        \/ \E q \in L.alloc :
             /\ IsLast(L, q)
             /\ list' = [node  |-> [L.node EXCEPT ![q].next = new, ![new] =
                                      [filename |-> n, fd |-> fd, next |-> NULL, prev |-> q]],
                         alloc |-> L.alloc \union {new},
                         head  |-> q]
  BY DEF AddFilename
<1>2. CASE Empty(L)
  <2>1. list' = [node  |-> [L.node EXCEPT ![new] =
                              [filename |-> n, fd |-> fd, next |-> NULL, prev |-> NULL]],
                 alloc |-> {new}, head |-> new]
    BY <1>1, <1>2 DEF Empty
  <2>2. list'.node[new] = [filename |-> n, fd |-> fd, next |-> NULL, prev |-> NULL]
    BY <2>1 DEF ListType
  <2>3. Single(list', new)
    BY <2>1, <2>2 DEF Single
  <2>4. Names(list') = {n} /\ Names(L) = {}
    BY <1>2, <2>1, <2>2 DEF Names, Empty
  <2> QED BY <2>3, <2>4 DEF Shaped, Short
<1>3. ASSUME NEW p \in Node, Single(L, p)
      PROVE  Shaped(list') /\ Names(list') = Names(L) \union {n}
  <2>1. L.alloc = {p} /\ L.head = p /\ p # new /\ p # NULL
    BY <1>3, PreopenedAssumption DEF Single
  <2>2. \A q : IsLast(L, q) <=> q = p
    BY <1>3, SingleFinds
  <2>3. list' = [node  |-> [L.node EXCEPT ![p].next = new, ![new] =
                              [filename |-> n, fd |-> fd, next |-> NULL, prev |-> p]],
                 alloc |-> {p, new}, head |-> p]
    BY <1>1, <2>1, <2>2
  <2>4. /\ list'.node[new] = [filename |-> n, fd |-> fd, next |-> NULL, prev |-> p]
        /\ list'.node[p] = [L.node[p] EXCEPT !.next = new]
    BY <2>1, <2>3 DEF ListType
  <2>5. L.node[p] \in Entry
    BY DEF ListType
  <2>6. list'.node[p].filename = L.node[p].filename /\ list'.node[p].next = new
        /\ list'.node[p].prev = NULL
    BY <1>3, <2>4, <2>5 DEF Entry, Single
  <2>7. L.node[p].filename # n
    BY <2>1 DEF Names
  <2>8. Pair(list', p, new)
    BY <2>1, <2>3, <2>4, <2>6, <2>7 DEF Pair
  <2>9. Names(list') = Names(L) \union {n}
    BY <2>1, <2>3, <2>4, <2>6 DEF Names
  <2> QED BY <2>8, <2>9 DEF Shaped
<1> QED BY <1>2, <1>3 DEF Short

(* static_add_filename finds the end of a list of one entry at most. *)
LEMMA ShortIsTame ==
  ASSUME NEW L, Short(L)
  PROVE  ~AddRunsWild(L)
BY EmptyFinds, SingleFinds DEF Short

(* A loop through such a list ends. *)
LEMMA ShapedIsTame ==
  ASSUME NEW L, Shaped(L), NEW n
  PROVE  ~RunsWild(L, n) /\ Listed(L) = L.alloc
<1>1. CASE Empty(L)
  BY <1>1, EmptyFinds DEF RunsWild, Empty
<1>2. ASSUME NEW p \in Node, Single(L, p) PROVE ~RunsWild(L, n) /\ Listed(L) = L.alloc
  <2>1. p \in L.alloc /\ L.alloc = {p}
    BY <1>2 DEF Single
  <2> QED BY <1>2, <2>1, SingleFinds DEF RunsWild
<1>3. ASSUME NEW p \in Node, NEW q \in Node, Pair(L, p, q)
      PROVE  ~RunsWild(L, n) /\ Listed(L) = L.alloc
  <2>1. p \in L.alloc /\ q \in L.alloc /\ L.alloc = {p, q}
    BY <1>3 DEF Pair
  <2> QED BY <1>3, <2>1, PairFindsNone, PairFindsAt, PairListed DEF RunsWild
<1> QED BY <1>1, <1>2, <1>3 DEF Shaped, Short

(* A careful call takes the entry of its device out of the list. *)
LEMMA TakenOut ==
  ASSUME IndInv, CarefulInv, NEW n \in Name, Calls(n), careful',
         NEW p \in list.alloc, FindsAt(list, n, p)
  PROVE  LET M == Unlinked(list, p)
         IN /\ Short(M) /\ Names(M) = Names(list) \ {n}
            /\ Shaped(M) /\ ListType(M) /\ ~AddRunsWild(M)
<1> DEFINE M == Unlinked(list, p)
<1>1. careful /\ Permitted(n) /\ Shaped(list)
  BY DEF Calls, CarefulInv
<1>2. Short(M) /\ Names(M) = Names(list) \ {n}
  BY <1>1, UnlinkedIsShort
<1>3. ListType(M)
  BY UnlinkedKeeps DEF IndInv
<1> HIDE DEF M
<1>4. Shaped(M) /\ ~AddRunsWild(M)
  BY <1>2, ShortIsTame DEF Shaped
<1> QED BY <1>2, <1>3, <1>4 DEF M

(* A careful call that finds no entry may add one. *)
LEMMA NotListed ==
  ASSUME IndInv, CarefulInv, NEW n \in Name, Calls(n), careful', FindsNone(list, n)
  PROVE  Short(list) /\ n \notin Names(list) /\ Shaped(list) /\ ListType(list)
<1>1. careful /\ Permitted(n) /\ Shaped(list)
  BY DEF Calls, CarefulInv
<1> QED BY <1>1, ShortFindsNone DEF IndInv

(* A careful setter leaves its device in the list, with those that were there. *)
LEMMA SetUpAdds ==
  ASSUME IndInv, CarefulInv, NEW n \in Name, NEW c \in Change, careful',
         SetUpKept(n, c) \/ SetUpNew(n, c)
  PROVE  Shaped(list') /\ Names(list') = Names(list) \union {n}
<1>1. CASE SetUpKept(n, c)
  <2>1. PICK p \in list.alloc :
          FindsAt(list, n, p) /\ AddFilename(Unlinked(list, p), n, list.node[p].fd)
    BY <1>1 DEF SetUpKept
  <2> DEFINE M == Unlinked(list, p)
             fd == list.node[p].fd
  <2>2. Calls(n)
    BY <1>1 DEF SetUpKept
  <2>3. Short(M) /\ Names(M) = Names(list) \ {n} /\ ListType(M)
    BY <2>1, <2>2, TakenOut
  <2>4. fd \in FD /\ n \in Names(list)
    BY <2>1 DEF IndInv, Sound, FindsAt, Names
  <2>5. AddFilename(M, n, fd)
    BY <2>1
  <2> HIDE DEF M, fd
  <2>6. Shaped(list') /\ Names(list') = Names(M) \union {n}
    BY <2>3, <2>4, <2>5, AddedIsShaped
  <2> QED BY <2>3, <2>4, <2>6
<1>2. CASE SetUpNew(n, c)
  <2>1. PICK fd \in FD : AddFilename(list, n, fd)
    BY <1>2 DEF SetUpNew
  <2>2. Calls(n) /\ FindsNone(list, n)
    BY <1>2 DEF SetUpNew
  <2> QED BY <2>1, <2>2, NotListed, AddedIsShaped
<1> QED BY <1>1, <1>2

(* No careful call follows a pointer to a freed entry. *)
LEMMA NotWild ==
  ASSUME IndInv, CarefulInv, NEW n \in Name, Wild(n), careful'
  PROVE  FALSE
<1>1. Calls(n) /\ Shaped(list)
  BY DEF Wild, Calls, CarefulInv
<1>2. ~RunsWild(list, n)
  BY <1>1, ShapedIsTame
<1>3. \A p \in list.alloc : FindsAt(list, n, p) => ~AddRunsWild(Unlinked(list, p))
  BY <1>1, TakenOut
<1> QED BY <1>2, <1>3 DEF Wild

(* CarefulInv holds at the start. *)
LEMMA CarefulInit == Init => CarefulInv
BY DEF Init, CarefulInv, Shaped, Short, Empty

(* CarefulInv is kept by every step. *)
LEMMA CarefulNext ==
  ASSUME IndInv, CarefulInv, [Next]_vars
  PROVE  CarefulInv'
<1>1. CASE UNCHANGED vars
  BY <1>1 DEF vars, CarefulInv
<1>2. ASSUME NEW n \in Name, NEW c \in Change, SetUpKept(n, c) \/ SetUpNew(n, c)
      PROVE  CarefulInv'
  <2>1. ~undefined' /\ UNCHANGED <<port, lock>>
    BY <1>2 DEF SetUpKept, SetUpNew, Calls
  <2>2. careful' => Shaped(list')
    BY <1>2, SetUpAdds
  <2> QED BY <2>1, <2>2 DEF CarefulInv
<1>3. ASSUME NEW n \in Name, SetUpRefused(n) PROVE CarefulInv'
  <2>1. /\ ~undefined' /\ port' = port /\ lock' = lock \union {n} /\ Calls(n)
        /\ list' = list \/ \E p \in list.alloc : FindsAt(list, n, p) /\ list' = Unlinked(list, p)
    BY <1>3 DEF SetUpRefused, Calls
  <2>2. careful' => Shaped(list')
    BY <2>1, TakenOut DEF CarefulInv, Calls
  <2> QED BY <2>1, <2>2 DEF CarefulInv
<1>4. ASSUME NEW n \in Name, CannotOpen(n) PROVE CarefulInv'
  BY <1>4 DEF CannotOpen, CarefulInv, Calls
<1>5. ASSUME NEW n \in Name, Wild(n) PROVE CarefulInv'
  <2>1. ~careful' /\ UNCHANGED <<port, lock>>
    BY <1>5, NotWild DEF Wild, Calls
  <2> QED BY <2>1 DEF CarefulInv
<1>6. ASSUME NEW n \in Name, StaticIsLine(n) \/ StaticIsInput(n) \/ StaticGetParams(n)
      PROVE  CarefulInv'
  <2>1. /\ ~undefined' /\ UNCHANGED <<port, lock>> /\ Calls(n)
        /\ \E p \in list.alloc : FindsAt(list, n, p) /\ list' = Unlinked(list, p)
    BY <1>6 DEF StaticIsLine, StaticIsInput, StaticGetParams, TakeOut, Calls
  <2>2. careful' => Shaped(list')
    BY <2>1, TakenOut
  <2> QED BY <2>1, <2>2 DEF CarefulInv
<1>7. ASSUME NEW n \in Name, OpenKept(n) PROVE CarefulInv'
  <2>1. /\ ~undefined' /\ lock' = lock \union {n} /\ Calls(n)
        /\ \E p \in list.alloc : FindsAt(list, n, p) /\ list' = Unlinked(list, p)
        /\ \A m \in Name : m # n => port'[m] = port[m]
    BY <1>7 DEF OpenKept, Calls, IndInv, TypeOK
  <2>2. careful' => Shaped(list')
    BY <2>1, TakenOut
  <2> QED BY <2>1, <2>2 DEF CarefulInv
<1>8. ASSUME NEW n \in Name, OpenNew(n) PROVE CarefulInv'
  <2>1. /\ ~undefined' /\ lock' = lock \union {n} /\ list' = list /\ (careful' => careful)
        /\ \A m \in Name : m # n => port'[m] = port[m]
    BY <1>8 DEF OpenNew, Calls, IndInv, TypeOK
  <2> QED BY <2>1 DEF CarefulInv
<1>9. ASSUME NEW n \in Name, NativeClose(n) PROVE CarefulInv'
  <2>1. /\ ~undefined' /\ lock' = lock \ {n} /\ list' = list /\ careful' = careful
        /\ port' = [port EXCEPT ![n] = 0] /\ port \in [Name -> FD \union {0}]
    BY <1>9 DEF NativeClose, IndInv, TypeOK
  <2>2. port'[n] = 0 /\ \A m \in Name : m # n => port'[m] = port[m]
    BY <2>1
  <2> QED BY <2>1, <2>2 DEF CarefulInv
<1>10. ASSUME NEW n \in Name, Refused(n) PROVE CarefulInv'
  BY <1>10 DEF Refused, vars, CarefulInv
<1> QED
  BY <1>1, <1>2, <1>3, <1>4, <1>5, <1>6, <1>7, <1>8, <1>9, <1>10 DEF Next

(* Both invariants hold in every reachable state. *)
LEMMA CarefulInvariance == Spec => [](IndInv /\ CarefulInv)
<1>1. Init => IndInv /\ CarefulInv
  BY InitInv, CarefulInit
<1>2. IndInv /\ CarefulInv /\ [Next]_vars => (IndInv /\ CarefulInv)'
  BY NextInv, CarefulNext
<1> QED BY <1>1, <1>2, PTL DEF Spec

(***************************************************************************)
(* For any number of devices and entries: as long as no third port is set  *)
(* up at once and of two that are set up the younger is opened first, no   *)
(* entry is lost, the entries agree about their neighbours and no freed    *)
(* one is used (find_preopened_ports, static_add_filename).                *)
(***************************************************************************)
THEOREM CarefulListIsSound == Spec => []ListSound
<1>1. IndInv /\ CarefulInv => ListSound
  <2> SUFFICES ASSUME IndInv, CarefulInv, careful PROVE ListSound
    BY DEF ListSound
  <2>1. ~undefined /\ Shaped(list)
    BY DEF CarefulInv
  <2>2. Listed(list) = list.alloc
    BY <2>1, ShapedIsTame
  <2>3. ASSUME NEW p \in list.alloc
        PROVE  /\ list.node[p].prev = NULL <=> p = list.head
               /\ list.node[p].next # NULL =>
                    /\ list.node[p].next \in list.alloc
                    /\ list.node[list.node[p].next].prev = p
    <3>1. CASE Empty(list)
      BY <3>1 DEF Empty
    <3>2. CASE \E q \in Node : Single(list, q)
      BY <3>2 DEF Single
    <3>3. CASE \E q, r \in Node : Pair(list, q, r)
      BY <3>3, PreopenedAssumption DEF Pair
    <3> QED BY <2>1, <3>1, <3>2, <3>3 DEF Shaped, Short
  <2> QED BY <2>1, <2>2, <2>3 DEF ListSound
<1> QED BY <1>1, CarefulInvariance, PTL

-----------------------------------------------------------------------------
(* The refinement: what waits to be opened, of a list and settings s, and  *)
(* what has been opened, of ports po                                       *)
KeptOf(L, s) == [n \in Name |-> IF \E p \in Listed(L) : L.node[p].filename = n
                                THEN s[n] ELSE None]
OpenedOf(po, s) == [n \in Name |-> IF po[n] # 0 THEN s[n] ELSE None]

(* What waits is what has an entry. *)
LEMMA KeptIs ==
  ASSUME NEW L, Shaped(L), NEW s
  PROVE  KeptOf(L, s) = [n \in Name |-> IF n \in Names(L) THEN s[n] ELSE None]
<1>1. Listed(L) = L.alloc
  BY ShapedIsTame
<1>2. \A n \in Name : (\E p \in Listed(L) : L.node[p].filename = n) <=> n \in Names(L)
  BY <1>1 DEF Names
<1> QED BY <1>2 DEF KeptOf

(* What happens to one device leaves the others alone. *)
LEMMA KeptChanges ==
  ASSUME NEW L, Shaped(L), NEW M, Shaped(M), NEW n \in Name, NEW s, NEW r,
         \A m \in Name : m # n => s[m] = r[m] /\ (m \in Names(L) <=> m \in Names(M))
  PROVE  KeptOf(M, r) = [KeptOf(L, s) EXCEPT ![n] = IF n \in Names(M) THEN r[n] ELSE None]
<1> DEFINE K == [m \in Name |-> IF m \in Names(L) THEN s[m] ELSE None]
           J == [m \in Name |-> IF m \in Names(M) THEN r[m] ELSE None]
           v == IF n \in Names(M) THEN r[n] ELSE None
<1>1. KeptOf(L, s) = K /\ KeptOf(M, r) = J
  BY KeptIs
<1>2. \A m \in Name : J[m] = IF m = n THEN v ELSE K[m]
  OBVIOUS
<1>3. J = [K EXCEPT ![n] = v]
  <2>1. [K EXCEPT ![n] = v] = [m \in Name |-> IF m = n THEN v ELSE K[m]]
    OBVIOUS
  <2>2. J = [m \in Name |-> J[m]]
    OBVIOUS
  <2> HIDE DEF J, K, v
  <2> QED BY <1>2, <2>1, <2>2
<1> QED BY <1>1, <1>3

(* Opening or closing one port leaves the others alone. *)
LEMMA OpenedChanges ==
  ASSUME NEW po, NEW so, NEW n \in Name, NEW s, NEW r,
         \A m \in Name : m # n => s[m] = r[m] /\ po[m] = so[m]
  PROVE  OpenedOf(so, r) = [OpenedOf(po, s) EXCEPT ![n] = IF so[n] # 0 THEN r[n] ELSE None]
BY DEF OpenedOf

(* A careful call sets up, gives up, opens or closes its port, or nothing. *)
Mapped ==
  \/ \E n \in Name :
       \/ /\ OpenedOf(port, setting)[n] = None
          /\ \E s \in Setting : KeptOf(list', setting') = [KeptOf(list, setting) EXCEPT ![n] = s]
          /\ OpenedOf(port', setting') = OpenedOf(port, setting)
       \/ /\ KeptOf(list', setting') = [KeptOf(list, setting) EXCEPT ![n] = None]
          /\ OpenedOf(port', setting') = OpenedOf(port, setting)
       \/ /\ OpenedOf(port, setting)[n] = None
          /\ \E s \in Setting :
               /\ KeptOf(list, setting)[n] # None => s = KeptOf(list, setting)[n]
               /\ OpenedOf(port', setting') = [OpenedOf(port, setting) EXCEPT ![n] = s]
          /\ KeptOf(list', setting') = [KeptOf(list, setting) EXCEPT ![n] = None]
       \/ /\ OpenedOf(port', setting') = [OpenedOf(port, setting) EXCEPT ![n] = None]
          /\ KeptOf(list', setting') = KeptOf(list, setting)
  \/ /\ KeptOf(list', setting') = KeptOf(list, setting)
     /\ OpenedOf(port', setting') = OpenedOf(port, setting)

(* A careful setter sets up its port. *)
LEMMA SetUpIsMapped ==
  ASSUME IndInv, CarefulInv, NEW n \in Name, NEW c \in Change, careful',
         SetUpKept(n, c) \/ SetUpNew(n, c)
  PROVE  Mapped
<1>1. Shaped(list) /\ Shaped(list') /\ Names(list') = Names(list) \union {n}
  BY SetUpAdds DEF CarefulInv, SetUpKept, SetUpNew, Calls
<1>2. /\ n \notin lock /\ port' = port
      /\ \A m \in Name : m # n => setting'[m] = setting[m]
      /\ setting[n] \in Setting /\ setting'[n] \in Setting
  <2>1. setting' = [setting EXCEPT ![n] = Changed(setting[n], c)]
          \/ setting' = [setting EXCEPT ![n] = Changed(Configured(n), c)]
    BY DEF SetUpKept, SetUpNew
  <2>2. setting \in [Name -> Setting]
    BY DEF IndInv, TypeOK
  <2>3. Changed(setting[n], c) \in Setting /\ Changed(Configured(n), c) \in Setting
    BY <2>2, SettingType DEF IndInv
  <2> QED BY <2>1, <2>2, <2>3 DEF SetUpKept, SetUpNew
<1>3. port[n] = 0
  BY <1>2 DEF CarefulInv
<1>4. OpenedOf(port, setting)[n] = None /\ OpenedOf(port', setting') = OpenedOf(port, setting)
  BY <1>2, <1>3 DEF OpenedOf
<1>5. KeptOf(list', setting') = [KeptOf(list, setting) EXCEPT ![n] = setting'[n]]
  BY <1>1, <1>2, KeptChanges
<1> QED BY <1>2, <1>4, <1>5 DEF Mapped

(* An entry that is taken out while nothing else changes is given up. *)
LEMMA TakeOutIsMapped ==
  ASSUME IndInv, CarefulInv, NEW n \in Name, Calls(n), careful',
         NEW p \in list.alloc, FindsAt(list, n, p), list' = Unlinked(list, p),
         UNCHANGED <<port, setting>>
  PROVE  Mapped
<1>1. Shaped(list) /\ Shaped(list') /\ Names(list') = Names(list) \ {n}
  BY TakenOut DEF CarefulInv, Calls
<1>2. KeptOf(list', setting') = [KeptOf(list, setting) EXCEPT ![n] = None]
  BY <1>1, KeptChanges
<1>3. OpenedOf(port', setting') = OpenedOf(port, setting)
  OBVIOUS
<1> QED BY <1>2, <1>3 DEF Mapped

(* A setter that is refused gives its port up, or changes nothing that waits. *)
LEMMA RefusedIsMapped ==
  ASSUME IndInv, CarefulInv, NEW n \in Name, SetUpRefused(n), careful'
  PROVE  Mapped
<1>1. Calls(n) /\ n \notin lock /\ port' = port
  BY DEF SetUpRefused
<1>2. CASE /\ \E p \in list.alloc : FindsAt(list, n, p) /\ list' = Unlinked(list, p)
           /\ UNCHANGED <<file, setting>>
  BY <1>1, <1>2, TakeOutIsMapped
<1>3. CASE /\ FindsNone(list, n)
           /\ setting' = [setting EXCEPT ![n] = Configured(n)]
           /\ UNCHANGED list
  <2>1. Shaped(list) /\ n \notin Names(list)
    BY <1>1, <1>3, NotListed
  <2>2. \A m \in Name : m # n => setting'[m] = setting[m]
    BY <1>3 DEF IndInv, TypeOK
  <2>3. KeptOf(list', setting') = [KeptOf(list, setting) EXCEPT ![n] = None]
    <3>1. Shaped(list') /\ Names(list') = Names(list)
      BY <1>3, <2>1
    <3> QED BY <2>1, <2>2, <3>1, KeptChanges
  <2>4. port[n] = 0
    BY <1>1 DEF CarefulInv
  <2>5. OpenedOf(port', setting') = OpenedOf(port, setting)
    BY <1>1, <2>2, <2>4 DEF OpenedOf
  <2> QED BY <2>3, <2>5 DEF Mapped
<1> QED BY <1>2, <1>3 DEF SetUpRefused

(* open() of a port that waits opens it with what was set up. *)
LEMMA OpenKeptIsMapped ==
  ASSUME IndInv, CarefulInv, NEW n \in Name, OpenKept(n), careful'
  PROVE  Mapped
<1>1. PICK p \in list.alloc : /\ FindsAt(list, n, p) /\ list' = Unlinked(list, p)
                              /\ port' = [port EXCEPT ![n] = list.node[p].fd]
  BY DEF OpenKept
<1>2. Calls(n) /\ n \notin lock /\ setting' = setting /\ setting \in [Name -> Setting]
  BY DEF OpenKept, IndInv, TypeOK
<1>3. Shaped(list) /\ Shaped(list') /\ Names(list') = Names(list) \ {n}
  BY <1>1, <1>2, TakenOut DEF CarefulInv, Calls
<1>4. KeptOf(list', setting') = [KeptOf(list, setting) EXCEPT ![n] = None]
  BY <1>2, <1>3, KeptChanges
<1>5. KeptOf(list, setting)[n] # None => setting[n] = KeptOf(list, setting)[n]
  BY DEF KeptOf
<1>6. /\ port[n] = 0 /\ port'[n] # 0
      /\ \A m \in Name : m # n => port'[m] = port[m]
  BY <1>1, <1>2, PreopenedAssumption DEF CarefulInv, IndInv, TypeOK, Sound
<1>7. OpenedOf(port, setting)[n] = None
  BY <1>6 DEF OpenedOf
<1>8. OpenedOf(port', setting') = [OpenedOf(port, setting) EXCEPT ![n] = setting[n]]
  <2>1. \A m \in Name : m # n => setting[m] = setting'[m] /\ port[m] = port'[m]
    BY <1>2, <1>6
  <2>2. OpenedOf(port', setting')
          = [OpenedOf(port, setting) EXCEPT ![n] = IF port'[n] # 0 THEN setting'[n] ELSE None]
    BY <2>1, OpenedChanges
  <2> QED BY <1>2, <1>6, <2>2
<1>9. setting[n] \in Setting
  BY <1>2
<1> QED BY <1>4, <1>5, <1>7, <1>8, <1>9 DEF Mapped

(* open() of any other port opens it. *)
LEMMA OpenNewIsMapped ==
  ASSUME IndInv, CarefulInv, NEW n \in Name, OpenNew(n), careful'
  PROVE  Mapped
<1>1. PICK fd \in FD : port' = [port EXCEPT ![n] = fd]
  BY DEF OpenNew
<1>2. /\ Calls(n) /\ n \notin lock /\ FindsNone(list, n) /\ list' = list
      /\ setting' = [setting EXCEPT ![n] = Configured(n)] /\ setting \in [Name -> Setting]
  BY DEF OpenNew, IndInv, TypeOK
<1>3. Shaped(list) /\ n \notin Names(list)
  BY <1>2, NotListed
<1>4. setting'[n] \in Setting /\ \A m \in Name : m # n => setting'[m] = setting[m]
  BY <1>2, SettingType DEF IndInv
<1>5. KeptOf(list', setting') = [KeptOf(list, setting) EXCEPT ![n] = None]
  <2>1. Shaped(list') /\ Names(list') = Names(list)
    BY <1>2, <1>3
  <2> QED BY <1>3, <1>4, <2>1, KeptChanges
<1>6. KeptOf(list, setting)[n] = None
  BY <1>3, KeptIs
<1>7. /\ port[n] = 0 /\ port'[n] # 0
      /\ \A m \in Name : m # n => port'[m] = port[m]
  BY <1>1, <1>2, PreopenedAssumption DEF CarefulInv, IndInv, TypeOK
<1>8. OpenedOf(port, setting)[n] = None
  BY <1>7 DEF OpenedOf
<1>9. OpenedOf(port', setting') = [OpenedOf(port, setting) EXCEPT ![n] = setting'[n]]
  BY <1>4, <1>7, OpenedChanges
<1> QED BY <1>4, <1>5, <1>6, <1>8, <1>9 DEF Mapped

(* nativeClose closes a port. *)
LEMMA CloseIsMapped ==
  ASSUME IndInv, NEW n \in Name, NativeClose(n)
  PROVE  Mapped
<1>1. /\ port' = [port EXCEPT ![n] = 0] /\ list' = list /\ setting' = setting
      /\ port \in [Name -> FD \union {0}]
  BY DEF NativeClose, IndInv, TypeOK
<1>2. port'[n] = 0 /\ \A m \in Name : m # n => port'[m] = port[m]
  BY <1>1
<1>3. OpenedOf(port', setting') = [OpenedOf(port, setting) EXCEPT ![n] = None]
  <2>1. \A m \in Name : m # n => setting[m] = setting'[m] /\ port[m] = port'[m]
    BY <1>1, <1>2
  <2>2. OpenedOf(port', setting')
          = [OpenedOf(port, setting) EXCEPT ![n] = IF port'[n] # 0 THEN setting'[n] ELSE None]
    BY <2>1, OpenedChanges
  <2> QED BY <1>2, <2>2
<1> QED BY <1>1, <1>3 DEF Mapped

(* So does every careful step, or it changes neither. *)
LEMMA StepIsMapped ==
  ASSUME IndInv, CarefulInv, [Next]_vars, careful'
  PROVE  Mapped
<1>1. ASSUME UNCHANGED <<list, port, setting>> PROVE Mapped
  BY <1>1 DEF Mapped
<1>2. CASE UNCHANGED vars
  BY <1>1, <1>2 DEF vars
<1>3. ASSUME NEW n \in Name, CannotOpen(n) \/ Refused(n) PROVE Mapped
  BY <1>1, <1>3 DEF CannotOpen, Refused, vars
<1>4. ASSUME NEW n \in Name, StaticIsLine(n) \/ StaticIsInput(n) \/ StaticGetParams(n)
      PROVE  Mapped
  BY <1>4, TakeOutIsMapped DEF StaticIsLine, StaticIsInput, StaticGetParams, TakeOut
<1> QED
  BY <1>2, <1>3, <1>4, NotWild, SetUpIsMapped, RefusedIsMapped, OpenKeptIsMapped,
     OpenNewIsMapped, CloseIsMapped DEF Next

(* Such a step is one of SetUpPorts. *)
LEMMA MappedIsSetUpStep ==
  ASSUME Mapped
  PROVE  [SetUp!Next]_(SetUp!vars)
BY DEF Mapped, KeptOf, OpenedOf, SetUp!Next, SetUp!vars, SetUp!SetUp, SetUp!GiveUp, SetUp!Open,
       SetUp!Close

(***************************************************************************)
(* For any number of devices and entries: settings made before open() are  *)
(* kept until open(), apart from those of other ports, and open() delivers *)
(* them unchanged, as long as the clients are careful (SerialImp.c:1993).  *)
(***************************************************************************)
THEOREM CarefulSetUpIsKept == Spec => CarefulSettingsAreKept
<1>1. Init => SetUp!Init
  <2> SUFFICES ASSUME Init PROVE SetUp!Init
    OBVIOUS
  <2>1. Listed(list) = {}
    BY DEF Init, Listed
  <2>2. \A n \in Name : port[n] = 0
    BY DEF Init
  <2> QED BY <2>1, <2>2 DEF SetUp!Init
<1>2. IndInv /\ CarefulInv /\ [Next]_vars => [careful' => [SetUp!Next]_(SetUp!vars)]_vars
  BY StepIsMapped, MappedIsSetUpStep
<1> QED BY <1>1, <1>2, CarefulInvariance, PTL DEF Spec, CarefulSettingsAreKept

=============================================================================

--------------------------- MODULE PreopenedPorts ---------------------------
(***************************************************************************)
(* Ports that are set up before they are opened (SerialImp.c).  A static   *)
(* call locks the device, takes its descriptor from the list that begins   *)
(* at preopened_port or opens the device, makes one setting, unlocks the   *)
(* device and puts the descriptor back into the list.  open() takes the    *)
(* descriptor from the list and leaves the settings alone.  The static     *)
(* queries take it as well, and forget it.  Calls are made one at a time.  *)
(***************************************************************************)
EXTENDS Naturals, FiniteSets

CONSTANTS
  Name,     \* devices
  Node,     \* where malloc can put an entry of the list
  FD,       \* file descriptors; as many files can be open
  Line,     \* output lines that static calls set
  Params,   \* parameters that staticSetSerialPortParams sets
  Default,  \* the parameters that configure_port sets
  NULL, None

ASSUME PreopenedAssumption ==
  /\ FD \subseteq Nat /\ IsFiniteSet(FD) /\ 0 \notin FD
  /\ NULL \notin Node /\ IsFiniteSet(Node)
  /\ None \notin Name

VARIABLES
  list,       \* [node, alloc, head]: the entries, which are allocated, preopened_port
  file,       \* per descriptor: the device it is open on, or None
  port,       \* per device: the descriptor of its open RXTXPort, or 0
  lock,       \* the devices whose lock file this process holds
  setting,    \* per device: its parameters and the output lines that are on
  undefined,  \* a call has followed a pointer to a freed entry
  careful     \* history: the calls have kept to what Permitted says

vars == <<list, file, port, lock, setting, undefined, careful>>

Setting == [params : Params \union {Default}, lines : SUBSET Line]

-----------------------------------------------------------------------------
(* The list *)

(* The entries that a loop from preopened_port visits, until it ends *)
Walk(L) ==
  LET w[k \in 0 .. Cardinality(Node)] ==
        IF k = 0 THEN L.head
        ELSE IF w[k - 1] \in L.alloc THEN L.node[w[k - 1]].next ELSE NULL
  IN w

(* The loop reaches its position k and looks for the name there. *)
Reaches(L, n, k) == \A j \in 0 .. k - 1 : L.node[Walk(L)[j]].filename # n

FindsAt(L, n, p) ==
  /\ p \in L.alloc /\ L.node[p].filename = n
  /\ \E k \in DOMAIN Walk(L) : Walk(L)[k] = p /\ Reaches(L, n, k)

FindsNone(L, n) ==
  \A k \in DOMAIN Walk(L) :
    Walk(L)[k] = NULL \/ (Walk(L)[k] \in L.alloc /\ L.node[Walk(L)[k]].filename # n)

(* It follows a pointer to an entry that has been freed. *)
RunsWild(L, n) == ~FindsNone(L, n) /\ \A p \in L.alloc : ~FindsAt(L, n, p)

Blank == [filename |-> None, fd |-> 0, next |-> NULL, prev |-> NULL]

(* Mutant: the entry is left in the list. *)
NotUnlinked(L, p) == L

(* Mutant: the entry before it still points to it. *)
NextNotUpdated(L, p) ==
  LET e == L.node[p]
  IN [node  |-> [q \in Node |-> IF q = p THEN Blank
                                ELSE IF q = e.next THEN [L.node[q] EXCEPT !.prev = e.prev]
                                ELSE L.node[q]],
      alloc |-> L.alloc \ {p},
      head  |-> IF e.prev = NULL /\ e.next = NULL THEN NULL ELSE L.head]

(* The entry is unlinked and freed; preopened_port moves only when it was the last. *)
Unlinked(L, p) ==
  LET e == L.node[p]
  IN [node  |-> [q \in Node |-> IF q = p THEN Blank
                                ELSE IF q = e.prev THEN [L.node[q] EXCEPT !.next = e.next]
                                ELSE IF q = e.next THEN [L.node[q] EXCEPT !.prev = e.prev]
                                ELSE L.node[q]],
      alloc |-> L.alloc \ {p},
      head  |-> IF e.prev = NULL /\ e.next = NULL THEN NULL ELSE L.head]

(* The last entry of the list, if its loop ends *)
IsLast(L, q) == q \in L.alloc /\ L.node[q].next = NULL /\ \E k \in DOMAIN Walk(L) : Walk(L)[k] = q

(* static_add_filename for a name that is not in the list: the new entry *)
(* goes to the end, and preopened_port is set to the entry before it. *)
AddFilename(L, n, fd) ==
  \E new \in Node \ L.alloc :
    \/ /\ L.head = NULL
       /\ list' = [node  |-> [L.node EXCEPT ![new] =
                                [filename |-> n, fd |-> fd, next |-> NULL, prev |-> NULL]],
                   alloc |-> L.alloc \union {new},
                   head  |-> new]
    \/ \E q \in L.alloc :
         /\ IsLast(L, q)
         /\ list' = [node  |-> [L.node EXCEPT ![q].next = new, ![new] =
                                  [filename |-> n, fd |-> fd, next |-> NULL, prev |-> q]],
                     alloc |-> L.alloc \union {new},
                     head  |-> q]

(* The loop from preopened_port meets a freed entry before it ends. *)
AddRunsWild(L) == \E k \in DOMAIN Walk(L) : Walk(L)[k] \notin L.alloc \union {NULL}

Listed(L) == {q \in L.alloc : \E k \in DOMAIN Walk(L) : Walk(L)[k] = q}

-----------------------------------------------------------------------------
TypeOK ==
  /\ list.node \in [Node -> [filename : Name \union {None}, fd : FD \union {0},
                             next : Node \union {NULL}, prev : Node \union {NULL}]]
  /\ list.alloc \subseteq Node /\ list.head \in Node \union {NULL}
  /\ file \in [FD -> Name \union {None}]
  /\ port \in [Name -> FD \union {0}]
  /\ lock \subseteq Name
  /\ setting \in [Name -> Setting]
  /\ {undefined, careful} \subseteq BOOLEAN

Init ==
  /\ list = [node |-> [p \in Node |-> Blank], alloc |-> {}, head |-> NULL]
  /\ file = [fd \in FD |-> None]
  /\ port = [n \in Name |-> 0]
  /\ lock = {}
  /\ setting = [n \in Name |-> [params |-> Default, lines |-> {}]]
  /\ undefined = FALSE
  /\ careful = TRUE

-----------------------------------------------------------------------------
(* The device *)

IsFree(fd) == file[fd] = None

(* Opening a device that nobody has open raises its lines. *)
OpenDevice(n, fd) ==
  /\ IsFree(fd) /\ \A other \in FD : IsFree(other) => fd <= other
  /\ file' = [file EXCEPT ![fd] = n]

Configured(n) ==
  [params |-> Default,
   lines  |-> IF \E fd \in FD : file[fd] = n THEN setting[n].lines ELSE Line]

(* What a static setter may be asked for *)
Change == [line : Line, on : BOOLEAN] \union [params : Params]

Changed(s, c) ==
  IF "params" \in DOMAIN c THEN [s EXCEPT !.params = c.params]
  ELSE [s EXCEPT !.lines = IF c.on THEN @ \union {c.line} ELSE @ \ {c.line}]

(***************************************************************************)
(* What the list bears: no third port is set up, and of two ports that are *)
(* set up the older is left alone until the younger has been opened.       *)
(***************************************************************************)
Permitted(n) ==
  \/ FindsNone(list, n) /\ Cardinality(Listed(list)) < 2
  \/ \E p \in list.alloc : FindsAt(list, n, p) /\ list.node[p].next = NULL

Calls(n) == ~undefined /\ careful' = (careful /\ Permitted(n))

-----------------------------------------------------------------------------
(* nativeStaticSetDTR, SetRTS, SetDSR and SetSerialPortParams *)

Wild(n) ==
  /\ Calls(n) /\ n \notin lock
  /\ RunsWild(list, n) \/ \E p \in list.alloc : FindsAt(list, n, p) /\ AddRunsWild(Unlinked(list, p))
  /\ undefined' = TRUE
  /\ UNCHANGED <<list, file, port, lock, setting>>

SetUpKept(n, c) ==
  /\ Calls(n) /\ n \notin lock
  /\ \E p \in list.alloc :
       /\ FindsAt(list, n, p) /\ ~AddRunsWild(Unlinked(list, p))
       /\ AddFilename(Unlinked(list, p), n, list.node[p].fd)
  /\ setting' = [setting EXCEPT ![n] = Changed(@, c)]
  /\ UNCHANGED <<file, port, lock, undefined>>

SetUpNew(n, c) ==
  /\ Calls(n) /\ n \notin lock
  /\ FindsNone(list, n)
  /\ \E fd \in FD : OpenDevice(n, fd) /\ AddFilename(list, n, fd)
  /\ setting' = [setting EXCEPT ![n] = Changed(Configured(n), c)]
  /\ UNCHANGED <<port, lock, undefined>>

(* Parameters that are refused: the lock stays, the descriptor is in no list. *)
SetUpRefused(n) ==
  /\ Calls(n) /\ n \notin lock
  /\ lock' = lock \union {n}
  /\ \/ /\ \E p \in list.alloc : FindsAt(list, n, p) /\ list' = Unlinked(list, p)
        /\ UNCHANGED <<file, setting>>
     \/ /\ FindsNone(list, n)
        /\ \E fd \in FD : OpenDevice(n, fd)
        /\ setting' = [setting EXCEPT ![n] = Configured(n)]
        /\ UNCHANGED list
  /\ UNCHANGED <<port, undefined>>

(* The device cannot be opened or is no terminal: the lock stays, for a static *)
(* call and for open(), and so does a descriptor. *)
CannotOpen(n) ==
  /\ Calls(n) /\ n \notin lock
  /\ FindsNone(list, n)
  /\ lock' = lock \union {n}
  /\ UNCHANGED file \/ \E fd \in FD : OpenDevice(n, fd)
  /\ UNCHANGED <<list, port, setting, undefined>>

(* The queries look the descriptor up, and so take it out of the list.  A *)
(* port without an entry is not opened for them, and none of them locks. *)
TakeOut(n) == \E p \in list.alloc : FindsAt(list, n, p) /\ list' = Unlinked(list, p)

(* nativeStaticIsRTS, DSR and DTR *)
StaticIsLine(n) ==
  /\ Calls(n) /\ TakeOut(n)
  /\ UNCHANGED <<file, port, lock, setting, undefined>>

(* nativeStaticIsCD, CTS and RI *)
StaticIsInput(n) ==
  /\ Calls(n) /\ TakeOut(n)
  /\ UNCHANGED <<file, port, lock, setting, undefined>>

(* nativeStaticGetBaudRate, DataBits, Parity and StopBits *)
StaticGetParams(n) ==
  /\ Calls(n) /\ TakeOut(n)
  /\ UNCHANGED <<file, port, lock, setting, undefined>>

-----------------------------------------------------------------------------
(* RXTXPort.open and nativeClose *)

(* Mutant: open() configures the port although it was set up. *)
OpenKeptConfigured(n) ==
  /\ Calls(n) /\ n \notin lock
  /\ \E p \in list.alloc :
       /\ FindsAt(list, n, p)
       /\ port' = [port EXCEPT ![n] = list.node[p].fd]
       /\ list' = Unlinked(list, p)
  /\ lock' = lock \union {n}
  /\ setting' = [setting EXCEPT ![n] = Configured(n)]
  /\ UNCHANGED <<file, undefined>>

OpenKept(n) ==
  /\ Calls(n) /\ n \notin lock
  /\ \E p \in list.alloc :
       /\ FindsAt(list, n, p)
       /\ port' = [port EXCEPT ![n] = list.node[p].fd]
       /\ list' = Unlinked(list, p)
  /\ lock' = lock \union {n}
  /\ UNCHANGED <<file, setting, undefined>>

OpenNew(n) ==
  /\ Calls(n) /\ n \notin lock
  /\ FindsNone(list, n)
  /\ \E fd \in FD : OpenDevice(n, fd) /\ port' = [port EXCEPT ![n] = fd]
  /\ lock' = lock \union {n}
  /\ setting' = [setting EXCEPT ![n] = Configured(n)]
  /\ UNCHANGED <<list, undefined>>

NativeClose(n) ==
  /\ ~undefined /\ port[n] # 0
  /\ file' = [file EXCEPT ![port[n]] = None]
  /\ port' = [port EXCEPT ![n] = 0]
  /\ lock' = lock \ {n}
  /\ UNCHANGED <<list, setting, undefined, careful>>

(* The device is locked: the call is refused. *)
Refused(n) == n \in lock /\ UNCHANGED vars

Next ==
  \E n \in Name :
    \/ \E c \in Change : SetUpKept(n, c) \/ SetUpNew(n, c)
    \/ SetUpRefused(n) \/ CannotOpen(n) \/ Wild(n)
    \/ StaticIsLine(n) \/ StaticIsInput(n) \/ StaticGetParams(n)
    \/ OpenKept(n) \/ OpenNew(n) \/ NativeClose(n) \/ Refused(n)

Spec == Init /\ [][Next]_vars

-----------------------------------------------------------------------------
(***************************************************************************)
(* An entry of the list, and an open port, has a descriptor that is open   *)
(* on its own device, and no two of them have the same one: otherwise a    *)
(* close, after which the number is used again, would let a static call    *)
(* or a stream work on another device (find_preopened_ports, nativeClose). *)
(***************************************************************************)
KeptDescriptors ==
  /\ \A p \in list.alloc : list.node[p].fd # 0 /\ file[list.node[p].fd] = list.node[p].filename
  /\ \A n \in Name : port[n] # 0 => file[port[n]] = n
  /\ \A p, q \in list.alloc : p # q => list.node[p].fd # list.node[q].fd
  /\ \A p \in list.alloc, n \in Name : list.node[p].fd # port[n]

(***************************************************************************)
(* After careful calls the list is sound: every entry can be reached from  *)
(* preopened_port, its neighbours agree about it, and no call has followed *)
(* a pointer to a freed entry (find_preopened_ports, static_add_filename). *)
(***************************************************************************)
ListSound ==
  careful =>
    /\ ~undefined
    /\ Listed(list) = list.alloc
    /\ \A p \in list.alloc :
         LET e == list.node[p]
         IN /\ e.prev = NULL <=> p = list.head
            /\ e.next # NULL => e.next \in list.alloc /\ list.node[e.next].prev = p

SetUp ==
  INSTANCE SetUpPorts WITH
    kept   <- [n \in Name |-> IF \E p \in Listed(list) : list.node[p].filename = n
                              THEN setting[n] ELSE None],
    opened <- [n \in Name |-> IF port[n] # 0 THEN setting[n] ELSE None]

(***************************************************************************)
(* Settings made before open() are kept until open(), apart from those of  *)
(* other ports, and open() delivers them unchanged (SerialImp.c:1993, "if  *)
(* its in the list no changes are performed on the file on open()"): every *)
(* step is one of SetUpPorts.                                              *)
(***************************************************************************)
SettingsAreKept == SetUp!Spec

(***************************************************************************)
(* The same of careful clients, whatever the others do.                    *)
(***************************************************************************)
CarefulSettingsAreKept == SetUp!Init /\ [][careful' => [SetUp!Next]_(SetUp!vars)]_vars
=============================================================================

----------------------------- MODULE RtgBitmap -----------------------------
(***************************************************************************)
(* Bitmaps in card memory and the video window (overlay) of the Picasso96  *)
(* driver.  On Zorro III surfaces come from the firmware's heap; on Zorro  *)
(* II there is one pool, which only an overlay's source may claim.         *)
(* Picasso96 is external: it calls the hooks one at a time, may place a    *)
(* bitmap in system memory, and may fail after the hook succeeded.         *)
(***************************************************************************)
EXTENDS Integers, FiniteSets

CONSTANTS Surfaces,  \* surfaces the firmware's heap has room for
          Wrappers   \* ZZBitMaps the system has memory for

Pool == "pool"       \* the Zorro II source pool
None == "none"
Ram == "ram"         \* a bitmap in system memory
Geometries == {"g1", "g2"}

VARIABLES bmBus,
          bmHeap,     \* surfaces the firmware has allocated
          bmList,     \* zz_bitmap_list: wrapper -> surface
          bmPip,      \* zz_z2_pip_bitmap
          bmPending,  \* the overlay's request is being served
          bmApps,     \* wrappers the programs' bitmaps use
          ovBitmap,   \* zz_overlay_bitmap: a wrapper, Ram or None
          ovLive,     \* the feature's magic is set
          ovGeometry, \* the source geometry the feature has
          ovMade,     \* the geometry its source was allocated with
          ovFw        \* the surface the firmware composites from

bitmapVars == <<bmBus, bmHeap, bmList, bmPip, bmPending, bmApps, ovBitmap, ovLive, ovGeometry,
                ovMade, ovFw>>

Init ==
  /\ bmBus \in {"z2", "z3"}
  /\ bmHeap = {} /\ bmList = [w \in {} |-> None] /\ bmPip = None /\ bmPending = FALSE
  /\ bmApps = {}
  /\ ovBitmap = None /\ ovLive = FALSE /\ ovGeometry = None /\ ovMade = None /\ ovFw = None

-----------------------------------------------------------------------------
Live == DOMAIN bmList

\* The records a hook works on, so that one call can use it.
Books == [heap |-> bmHeap, list |-> bmList, pip |-> bmPip]

Keep(books) == bmHeap' = books.heap /\ bmList' = books.list /\ bmPip' = books.pip

\* ZZ_AllocBitMap: a surface, then a wrapper for it, which system memory may
\* not have.  Outcomes are [books, wrapper].
ZZ_AllocBitMap(wanted) ==
  LET refused == [books |-> Books, bitmap |-> None]
      made(w, s) == [books |-> [heap |-> IF s = Pool THEN bmHeap ELSE bmHeap \cup {s},
                                list |-> [x \in Live \cup {w} |-> IF x = w THEN s ELSE bmList[x]],
                                pip |-> IF s = Pool THEN w ELSE bmPip],
                     bitmap |-> w]
      room == IF bmBus = "z3" THEN Surfaces \ bmHeap
              ELSE IF wanted /\ bmPip = None THEN {Pool} ELSE {}
  IN {refused} \cup {made(w, s) : w \in Wrappers \ Live, s \in room}

\* ZZ_FreeBitMap: only a bitmap on the list is the driver's.
ZZ_FreeBitMap(books, w) ==
  [heap |-> books.heap \ {books.list[w]},
   list |-> [x \in DOMAIN books.list \ {w} |-> books.list[x]],
   pip |-> IF books.pip = w THEN None ELSE books.pip]

\* Reclaim the pool if Picasso96 did not free the source through the hook.
Reclaimed(books) == IF books.pip = None THEN books ELSE ZZ_FreeBitMap(books, books.pip)

\* zz_overlay_free_source: on Zorro III Picasso96 frees through the hook; on
\* Zorro II it may not have.
FreeSource(books, bitmap) ==
  IF bitmap \in {None, Ram} THEN {Reclaimed(books)}
  ELSE {Reclaimed(ZZ_FreeBitMap(books, bitmap))}
       \cup (IF bmBus = "z2" THEN {Reclaimed(books)} ELSE {})

-----------------------------------------------------------------------------
\* A program's bitmap.  Picasso96 is taken not to serve one between the two
\* halves of CreateFeature on Zorro II: of the right height it would be given
\* the overlay's pool.
AppAllocs ==
  \E r \in ZZ_AllocBitMap(bmPending) :
    /\ bmBus = "z2" => ~bmPending
    /\ r.bitmap # None
    /\ Keep(r.books) /\ bmApps' = bmApps \cup {r.bitmap}
    /\ UNCHANGED <<bmBus, bmPending, ovBitmap, ovLive, ovGeometry, ovMade, ovFw>>

AppFrees ==
  \E w \in bmApps :
    /\ Keep(ZZ_FreeBitMap(Books, w)) /\ bmApps' = bmApps \ {w}
    /\ UNCHANGED <<bmBus, bmPending, ovBitmap, ovLive, ovGeometry, ovMade, ovFw>>

\* CreateFeature up to the allocation of the source, if no overlay exists.
CreateFeature(g) ==
  /\ ovBitmap = None /\ ~bmPending
  /\ bmPending' = TRUE /\ ovGeometry' = g
  /\ UNCHANGED <<bmBus, bmHeap, bmList, bmPip, bmApps, ovBitmap, ovLive, ovMade, ovFw>>

\* p96AllocBitMap fails, before the hook or after it.
SourceFails ==
  /\ bmPending /\ bmPending' = FALSE
  /\ \E r \in ZZ_AllocBitMap(TRUE) :
       /\ bmBus = "z3" => r.bitmap = None
       /\ Keep(Reclaimed(r.books))
  /\ UNCHANGED <<bmBus, bmApps, ovBitmap, ovLive, ovGeometry, ovMade, ovFw>>

\* The source is there but in system memory or with too small a pitch, or the
\* firmware refuses it: it is freed.
CreateFails ==
  /\ bmPending /\ bmPending' = FALSE
  /\ \E r \in ZZ_AllocBitMap(TRUE) :
       \E books \in FreeSource(r.books, r.bitmap) : Keep(books)
  /\ UNCHANGED <<bmBus, bmApps, ovBitmap, ovLive, ovGeometry, ovMade, ovFw>>

\* The source is on the board and the firmware composites from it.
CreateSucceeds ==
  /\ bmPending /\ bmPending' = FALSE
  /\ \E r \in ZZ_AllocBitMap(TRUE) :
       /\ r.bitmap # None
       /\ Keep(r.books)
       /\ ovBitmap' = r.bitmap /\ ovFw' = r.books.list[r.bitmap]
  /\ ovLive' = TRUE /\ ovMade' = ovGeometry
  /\ UNCHANGED <<bmBus, bmApps, ovGeometry>>

\* Attributes of the window change; those of the source are ignored.
SetFeatureAttrs ==
  /\ ovLive /\ ovBitmap # None
  /\ ovFw' = bmList[ovBitmap]
  /\ UNCHANGED <<bmBus, bmHeap, bmList, bmPip, bmPending, bmApps, ovBitmap, ovLive, ovGeometry,
                 ovMade>>

\* The firmware stops reading before the source goes.
DeleteFeature ==
  /\ ovLive /\ ovBitmap # None
  /\ ovFw' = None /\ ovLive' = FALSE /\ ovBitmap' = None
  /\ \E books \in FreeSource(Books, ovBitmap) : Keep(books)
  /\ bmPending' = FALSE
  /\ UNCHANGED <<bmBus, bmApps, ovGeometry, ovMade>>

Next ==
  \/ AppAllocs \/ AppFrees
  \/ \E g \in Geometries : CreateFeature(g)
  \/ SourceFails \/ CreateFails \/ CreateSucceeds \/ SetFeatureAttrs \/ DeleteFeature

Spec == Init /\ [][Next]_bitmapVars

-----------------------------------------------------------------------------
\* Every surface the firmware has allocated is one live bitmap's and no
\* bitmap lost its surface; the pool is claimed as long as its bitmap lives;
\* the firmware composites only from the live source of a live feature, of the
\* geometry it was allocated with.
BitmapSafe ==
  /\ {bmList[w] : w \in Live} \ {Pool} = bmHeap
  /\ \A w, x \in Live : bmList[w] = bmList[x] => w = x
  /\ bmPip # None <=> Pool \in {bmList[w] : w \in Live}
  /\ Live = bmApps \cup ({ovBitmap} \ {None})
  /\ ovFw # None => ovLive /\ ovBitmap \in Live /\ bmList[ovBitmap] = ovFw
  /\ ovLive => ovGeometry = ovMade
=============================================================================

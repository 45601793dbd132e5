----------------------------- MODULE CaptureProofs -----------------------------
(****************************************************************************)
(* Proofs about Capture, for any streams, copying clients, regions, paints, *)
(* modes and environments. Each client is sent differences; the invariant   *)
(* says of each what the next difference has to make up for: outside its    *)
(* damage, a picture that is neither stale nor the static frame is already  *)
(* the screen.                                                              *)
(****************************************************************************)
EXTENDS Capture, TLAPS

\* Without consent nobody is being served (set_screen_capture).
Consented ==
  ~gate => /\ \A s \in Stream : ~stream[s].open
           /\ \A g \in Graft : ~graft[g].open
           /\ \A c \in Copier : copier[c].frame = "none"

\* A stream that is not marked for a full frame shows the screen, but for what
\* changed since the last render; or it holds the static frame.
StreamBook(k) ==
  /\ k.open /\ k.ready /\ ~k.resync /\ ~k.lockedSent /\ k.last = mode
       => \A r \in Region \ due : k.said[r] = Screen[r]
  /\ k.lockedSent => k.said = Filled

\* A copying client shows the screen, but for what its tracker will report.
CopyBook(k) == \A r \in Region \ k.due : k.got[r] = Screen[r]

Books ==
  /\ \A s \in Stream : StreamBook(stream[s])
  /\ \A c \in Copier : CopyBook(copier[c])

IInv == TypeOK /\ Consented /\ Books

----------------------------------------------------------------------------
(* Pictures.                                                                *)

LEMMA ScreenType ==
  ASSUME TypeOK
  PROVE  Screen \in Picture
  BY DEF TypeOK, Screen, Picture, Draws, Drawn

LEMMA FillType == Filled \in Picture /\ Blank \in Picture
  BY DEF Filled, Blank, Picture, Draws, Drawn

----------------------------------------------------------------------------
(* What a render makes of each client.                                      *)

LEMMA SentType ==
  ASSUME TypeOK, NEW k \in Streams
  PROVE  Sent(k) \in Streams
<1>1. mode \in Mode
  BY DEF TypeOK
<1>2. (IF Static THEN Filled ELSE Screen) \in Picture
  BY ScreenType, FillType
<1>3. (IF k.ready /\ k.last = mode THEN k.said ELSE Blank) \in Picture
  BY FillType DEF Streams
<1>4. Sent(k).said \in Picture
  BY <1>2, <1>3 DEF Sent, Picture, Streams
<1>5. Static \in BOOLEAN
  BY DEF Static, TypeOK
<1>6. QED
  BY <1>1, <1>4, <1>5 DEF Sent, Streams

LEMMA StreamedType ==
  ASSUME TypeOK, NEW k \in Streams
  PROVE  Streamed(k) \in Streams
<1>1. CASE ~k.open
  BY <1>1 DEF Streamed
<1>2. CASE k.open /\ k.draining
  BY <1>2 DEF Streamed, Streams
<1>3. CASE k.open /\ ~k.draining
  BY <1>3, SentType DEF Streamed
<1>4. QED
  BY <1>1, <1>2, <1>3

LEMMA GraftedType ==
  ASSUME TypeOK, NEW k \in Grafts
  PROVE  Grafted(k) \in Grafts
<1>1. win \in Paint \cup {None}
  BY DEF TypeOK
<1>2. CASE ~k.open \/ locked
  BY <1>2 DEF Grafted
<1>3. CASE k.open /\ ~locked /\ win = None
  BY <1>3 DEF Grafted, NewGraft, Grafts
<1>4. CASE k.open /\ ~locked /\ win # None
  BY <1>1, <1>4 DEF Grafted, Grafts
<1>5. QED
  BY <1>2, <1>3, <1>4 DEF TypeOK

LEMMA CopiedType ==
  ASSUME TypeOK, NEW k \in Copiers
  PROVE  Copied(k) \in Copiers
<1>1. CASE CopyHolds(k)
  BY <1>1 DEF Copied
<1>2. CASE ~CopyHolds(k)
  <2>1. Copied(k).got \in Picture
    BY <1>2, ScreenType DEF Copied, Picture, Copiers
  <2>2. QED
    BY <1>2, <2>1 DEF Copied, Copiers
<1>3. QED
  BY <1>1, <1>2

----------------------------------------------------------------------------
(* Types.                                                                   *)

LEMMA DamageType ==
  ASSUME TypeOK, NEW rs \in SUBSET Region, Damages(rs)
  PROVE  due' \subseteq Region /\ copier' \in [Copier -> Copiers]
  BY DEF TypeOK, Damages, Copiers

LEMMA SceneType ==
  ASSUME TypeOK,
         \/ \E r \in Region, p \in Paint : Draw(r, p)
         \/ \E p \in Paint : DrawLock(p) \/ WindowCommits(p)
         \/ WindowCloses
         \/ \E m \in Mode : Resize(m)
         \/ \E on \in BOOLEAN : SetLocked(on)
         \/ SetPreview
  PROVE  TypeOK'
<1>1. CASE \E r \in Region, p \in Paint : Draw(r, p)
  <2>1. PICK r \in Region, p \in Paint : Draw(r, p)
    BY <1>1
  <2>2. due' \subseteq Region /\ copier' \in [Copier -> Copiers]
    <3>1. CASE locked
      BY <2>1, <3>1 DEF Draw, TypeOK
    <3>2. CASE ~locked
      BY <2>1, <3>2, DamageType DEF Draw
    <3>3. QED
      BY <3>1, <3>2
  <2>3. QED
    BY <2>1, <2>2 DEF Draw, TypeOK
<1>2. CASE \E p \in Paint : DrawLock(p) \/ WindowCommits(p)
  <2>1. PICK p \in Paint : DrawLock(p) \/ WindowCommits(p)
    BY <1>2
  <2>2. CASE DrawLock(p)
    BY <2>2, DamageType DEF DrawLock, TypeOK
  <2>3. CASE WindowCommits(p)
    BY <2>3 DEF WindowCommits, TypeOK, Grafts
  <2>4. QED
    BY <2>1, <2>2, <2>3
<1>3. CASE WindowCloses
  BY <1>3 DEF WindowCloses, TypeOK
<1>4. CASE \E m \in Mode : Resize(m)
  <2>1. PICK m \in Mode : Resize(m)
    BY <1>4
  <2>2. QED
    BY <2>1, DamageType DEF Resize, TypeOK
<1>5. CASE \E on \in BOOLEAN : SetLocked(on)
  <2>1. PICK on \in BOOLEAN : SetLocked(on)
    BY <1>5
  <2>2. QED
    BY <2>1, DamageType DEF SetLocked, TypeOK
<1>6. CASE SetPreview
  BY <1>6 DEF SetPreview, TypeOK
<1>7. QED
  BY <1>1, <1>2, <1>3, <1>4, <1>5, <1>6

LEMMA NewTypes == NewStream \in Streams /\ NewGraft \in Grafts /\ NewCopier \in Copiers
  BY FillType DEF NewStream, NewGraft, NewCopier, Streams, Grafts, Copiers

LEMMA ClientType ==
  ASSUME TypeOK,
         \/ \E s \in Stream : OpenStream(s) \/ \E open \in BOOLEAN : StreamTurns(s, open)
         \/ \E g \in Graft : OpenGraft(g) \/ \E open \in BOOLEAN : GraftTurns(g, open)
         \/ \E c \in Copier : DestroyFrame(c) \/ DestroyManager(c)
         \/ \E c \in Copier, f \in {"copy", "damage"} : Copy(c, f)
         \/ \E on \in BOOLEAN : SetScreenCapture(on)
  PROVE  TypeOK'
<1>1. CASE \E s \in Stream : OpenStream(s) \/ \E open \in BOOLEAN : StreamTurns(s, open)
  <2>1. PICK s \in Stream : OpenStream(s) \/ \E open \in BOOLEAN : StreamTurns(s, open)
    BY <1>1
  <2>2. CASE OpenStream(s)
    <3>1. [NewStream EXCEPT !.open = TRUE] \in Streams
      BY NewTypes DEF Streams
    <3>2. QED
      BY <2>2, <3>1 DEF OpenStream, TypeOK
  <2>3. CASE \E open \in BOOLEAN : StreamTurns(s, open)
    <3>1. PICK open \in BOOLEAN : StreamTurns(s, open)
      BY <2>3
    <3>2. stream[s] \in Streams
      BY DEF TypeOK
    <3>3. Turned(stream[s]) \in Streams
      BY <3>2 DEF Streams, Turned
    <3>5. stream' \in [Stream -> Streams]
      BY <3>1, <3>3, NewTypes DEF StreamTurns, TypeOK
    <3>6. QED
      BY <3>1, <3>5 DEF StreamTurns, TypeOK
  <2>4. QED
    BY <2>1, <2>2, <2>3
<1>2. CASE \E g \in Graft : OpenGraft(g) \/ \E open \in BOOLEAN : GraftTurns(g, open)
  <2>1. PICK g \in Graft : OpenGraft(g) \/ \E open \in BOOLEAN : GraftTurns(g, open)
    BY <1>2
  <2>2. CASE OpenGraft(g)
    <3>1. [NewGraft EXCEPT !.open = TRUE] \in Grafts
      BY NewTypes DEF Grafts
    <3>2. QED
      BY <2>2, <3>1 DEF OpenGraft, TypeOK
  <2>3. CASE \E open \in BOOLEAN : GraftTurns(g, open)
    <3>1. PICK open \in BOOLEAN : GraftTurns(g, open)
      BY <2>3
    <3>2. graft[g] \in Grafts
      BY DEF TypeOK
    <3>3. Turned(graft[g]) \in Grafts
      BY <3>2 DEF Grafts, Turned
    <3>5. graft' \in [Graft -> Grafts]
      BY <3>1, <3>3, NewTypes DEF GraftTurns, TypeOK
    <3>6. QED
      BY <3>1, <3>5 DEF GraftTurns, TypeOK
  <2>4. QED
    BY <2>1, <2>2, <2>3
<1>3. CASE \E c \in Copier : DestroyFrame(c) \/ DestroyManager(c)
  BY <1>3 DEF DestroyFrame, DestroyManager, TypeOK, Copiers
<1>4. CASE \E c \in Copier, f \in {"copy", "damage"} : Copy(c, f)
  BY <1>4 DEF Copy, TypeOK, Copiers
<1>5. CASE \E on \in BOOLEAN : SetScreenCapture(on)
  <2>1. PICK on \in BOOLEAN : SetScreenCapture(on)
    BY <1>5
  <2>2. QED
    BY <2>1, NewTypes DEF SetScreenCapture, TypeOK, Copiers
<1>6. QED
  BY <1>1, <1>2, <1>3, <1>4, <1>5

LEMMA RenderType ==
  ASSUME TypeOK, RenderOnce
  PROVE  TypeOK'
<1>1. copier' \in [Copier -> Copiers]
  BY CopiedType DEF RenderOnce, Served, TypeOK
<1>2. graft' \in [Graft -> Grafts]
  BY GraftedType DEF RenderOnce, Served, TypeOK
<1>3. stream' \in [Stream -> Streams]
  BY StreamedType DEF RenderOnce, Served, TypeOK
<1>4. QED
  BY <1>1, <1>2, <1>3 DEF RenderOnce, TypeOK

LEMMA TypeStep ==
  ASSUME TypeOK, [Next]_vars
  PROVE  TypeOK'
<1>1. CASE UNCHANGED vars
  BY <1>1 DEF vars, TypeOK
<1>2. CASE Next
  BY <1>2, SceneType, ClientType, RenderType DEF Next
<1>3. QED
  BY <1>1, <1>2

----------------------------------------------------------------------------
(* Consent.                                                                 *)

LEMMA ConsentStep ==
  ASSUME TypeOK, Consented, [Next]_vars
  PROVE  Consented'
<1>1. CASE UNCHANGED vars
  BY <1>1 DEF vars, Consented
<1>2. CASE \E on \in BOOLEAN : SetScreenCapture(on)
  <2>1. PICK on \in BOOLEAN : SetScreenCapture(on)
    BY <1>2
  <2>2. CASE on
    BY <2>1, <2>2 DEF SetScreenCapture, Consented
  <2>3. CASE ~on
    BY <2>1, <2>3 DEF SetScreenCapture, Consented, NewStream, NewGraft, TypeOK, Copiers
  <2>4. QED
    BY <2>2, <2>3
<1>3. CASE RenderOnce
  <2>1. gate' = gate
    BY <1>3 DEF RenderOnce
  <2>2. ASSUME ~gate, NEW c \in Copier
        PROVE  copier'[c].frame = "none"
    BY <1>3, <2>2 DEF RenderOnce, Served, Consented, Copied, CopyHolds
  <2>3. QED
    BY <1>3, <2>1, <2>2 DEF RenderOnce, Served, Consented
<1>4. CASE \E s \in Stream : OpenStream(s) \/ \E open \in BOOLEAN : StreamTurns(s, open)
  <2>1. PICK s \in Stream : OpenStream(s) \/ \E open \in BOOLEAN : StreamTurns(s, open)
    BY <1>4
  <2>2. gate /\ gate' = gate
    BY <2>1 DEF OpenStream, StreamTurns, Consented
  <2>3. QED
    BY <2>2 DEF Consented
<1>5. CASE \E g \in Graft : OpenGraft(g) \/ \E open \in BOOLEAN : GraftTurns(g, open)
  <2>1. PICK g \in Graft : OpenGraft(g) \/ \E open \in BOOLEAN : GraftTurns(g, open)
    BY <1>5
  <2>2. gate /\ gate' = gate
    BY <2>1 DEF OpenGraft, GraftTurns, Consented
  <2>3. QED
    BY <2>2 DEF Consented
<1>6. CASE \E c \in Copier :
             DestroyFrame(c) \/ DestroyManager(c) \/ \E f \in {"copy", "damage"} : Copy(c, f)
  <2>1. PICK c \in Copier :
          DestroyFrame(c) \/ DestroyManager(c) \/ \E f \in {"copy", "damage"} : Copy(c, f)
    BY <1>6
  <2>2. gate' = gate /\ stream' = stream /\ graft' = graft
    BY <2>1 DEF DestroyFrame, DestroyManager, Copy
  <2>3. CASE \E f \in {"copy", "damage"} : Copy(c, f)
    BY <2>2, <2>3 DEF Copy, Consented
  <2>4. CASE DestroyFrame(c) \/ DestroyManager(c)
    BY <2>2, <2>4 DEF DestroyFrame, DestroyManager, Consented, TypeOK, Copiers
  <2>5. QED
    BY <2>1, <2>3, <2>4
<1>7. CASE \E p \in Paint : DrawLock(p) \/ WindowCommits(p) \/ \E r \in Region : Draw(r, p)
  <2>1. PICK p \in Paint : DrawLock(p) \/ WindowCommits(p) \/ \E r \in Region : Draw(r, p)
    BY <1>7
  <2>2. gate' = gate /\ stream' = stream
    BY <2>1 DEF DrawLock, WindowCommits, Draw
  <2>3. CASE DrawLock(p)
    BY <2>3 DEF DrawLock, Damages, Consented, TypeOK, Copiers
  <2>4. CASE WindowCommits(p)
    BY <2>4 DEF WindowCommits, Consented, TypeOK, Grafts
  <2>5. CASE \E r \in Region : Draw(r, p)
    <3>1. PICK r \in Region : Draw(r, p)
      BY <2>5
    <3>2. CASE locked
      BY <3>1, <3>2 DEF Draw, Consented
    <3>3. CASE ~locked
      BY <3>1, <3>3 DEF Draw, Damages, Consented, TypeOK, Copiers
    <3>4. QED
      BY <3>2, <3>3
  <2>6. QED
    BY <2>1, <2>3, <2>4, <2>5
<1>8. CASE \/ WindowCloses \/ SetPreview
           \/ \E m \in Mode : Resize(m)
           \/ \E on \in BOOLEAN : SetLocked(on)
  BY <1>8 DEF WindowCloses, SetPreview, Resize, SetLocked, Damages, Consented, TypeOK, Copiers
<1>9. QED
  BY <1>1, <1>2, <1>3, <1>4, <1>5, <1>6, <1>7, <1>8 DEF Next

----------------------------------------------------------------------------
(* Pictures over a render.                                                  *)

\* What is sent to a stream that has room is a picture of the screen.
LEMMA StreamedShows ==
  ASSUME TypeOK, NEW k \in Streams, StreamBook(k), k.open, ~k.draining
  PROVE  Streamed(k).said = (IF Static THEN Filled ELSE Screen)
<1>1. k.said \in Picture /\ Screen \in Picture /\ Filled \in Picture
  BY ScreenType, FillType DEF Streams
<1>2. CASE Static /\ k.lockedSent /\ k.last = mode
  BY <1>2 DEF Streamed, StreamBook
<1>3. CASE ~NeedsFull(k) /\ due = {}
  <2>1. ~Static
    BY <1>3 DEF NeedsFull
  <2>2. Streamed(k).said = k.said
    BY <1>3 DEF Streamed
  <2>3. \A r \in Region : k.said[r] = Screen[r]
    BY <1>3 DEF NeedsFull, StreamBook
  <2>4. QED
    BY <1>1, <2>1, <2>2, <2>3 DEF Picture
<1>4. CASE ~(Static /\ k.lockedSent /\ k.last = mode) /\ ~(~NeedsFull(k) /\ due = {})
  <2>1. Streamed(k) = Sent(k)
    BY <1>4 DEF Streamed
  <2> DEFINE now == IF Static THEN Filled ELSE Screen
  <2>2. now \in Picture
    BY <1>1
  <2>3. CASE NeedsFull(k)
    <3>1. Sent(k).said = [r \in Region |-> now[r]]
      BY <2>3 DEF Sent, Streams
    <3>2. QED
      BY <2>1, <2>2, <3>1 DEF Picture
  <2>4. CASE ~NeedsFull(k)
    <3>1. ~Static /\ k.ready /\ k.last = mode
      BY <2>4 DEF NeedsFull
    <3>2. Sent(k).said = [r \in Region |-> IF r \in due THEN Screen[r] ELSE k.said[r]]
      BY <2>4, <3>1 DEF Sent, Streams
    <3>3. \A r \in Region \ due : k.said[r] = Screen[r]
      BY <2>4 DEF NeedsFull, StreamBook
    <3>4. Sent(k).said = [r \in Region |-> Screen[r]]
      BY <3>2, <3>3
    <3>5. QED
      BY <1>1, <2>1, <3>1, <3>4 DEF Picture
  <2>5. QED
    BY <2>3, <2>4
<1>5. QED
  BY <1>2, <1>3, <1>4

\* A copy that is served is one too.
LEMMA CopiedShows ==
  ASSUME TypeOK, NEW k \in Copiers, CopyBook(k), k.frame # "none"
  PROVE  Copied(k).got = Screen
<1>1. k.got \in Picture /\ Screen \in Picture
  BY ScreenType DEF Copiers
<1>2. CASE CopyHolds(k)
  <2>1. \A r \in Region : k.got[r] = Screen[r]
    BY <1>2 DEF CopyHolds, CopyBook
  <2>2. k.got = Screen
    BY <1>1, <2>1 DEF Picture
  <2>3. QED
    BY <1>2, <2>2 DEF Copied
<1>3. CASE ~CopyHolds(k)
  <2>1. Copied(k).got = [r \in Region |-> IF k.frame = "copy" \/ r \in k.due
                                          THEN Screen[r] ELSE k.got[r]]
    BY <1>3 DEF Copied, Copiers
  <2>2. Copied(k).got = [r \in Region |-> Screen[r]]
    BY <2>1 DEF CopyBook, Copiers
  <2>3. QED
    BY <1>1, <2>2 DEF Picture
<1>4. QED
  BY <1>2, <1>3

LEMMA RenderBooks ==
  ASSUME IInv, RenderOnce
  PROVE  Books'
<1> USE DEF IInv
<1>1. Screen' = Screen /\ mode' = mode /\ due' = {} /\ Static' = Static
  BY DEF RenderOnce, Screen, Drawn, Static
<1>2. ASSUME NEW s \in Stream
      PROVE  StreamBook(stream[s])'
  <2> DEFINE k == stream[s]
  <2>1. k \in Streams /\ StreamBook(k)
    BY DEF TypeOK, Books
  <2>2. CASE ~gate
    BY <2>2, <2>1, <1>1 DEF RenderOnce, Served, Consented, StreamBook
  <2>3. CASE gate
    <3>1. stream'[s] = Streamed(k)
      BY <2>3 DEF RenderOnce, Served
    <3>2. CASE ~k.open
      BY <1>1, <2>1, <3>1, <3>2 DEF Streamed, StreamBook
    <3>3. CASE k.open /\ k.draining
      <4>1. stream'[s] = [k EXCEPT !.resync = TRUE]
        BY <3>1, <3>3 DEF Streamed
      <4>2. QED
        BY <1>1, <2>1, <4>1 DEF StreamBook, Streams
    <3>4. CASE k.open /\ ~k.draining
      <4>1. stream'[s].said = (IF Static THEN Filled ELSE Screen)
        BY <2>1, <3>1, <3>4, StreamedShows
      <4>2. Static => stream'[s].lockedSent
        <5>1. Static => NeedsFull(k)
          BY DEF NeedsFull
        <5>2. Sent(k).lockedSent = Static
          BY <2>1 DEF Sent, Streams
        <5>3. QED
          BY <3>1, <3>4, <5>1, <5>2 DEF Streamed
      <4>3. stream'[s].lockedSent => Static
        <5>1. Sent(k).lockedSent = Static
          BY <2>1 DEF Sent, Streams
        <5>2. QED
          BY <3>1, <3>4, <5>1 DEF Streamed, NeedsFull
      <4>4. QED
        BY <1>1, <4>1, <4>2, <4>3 DEF StreamBook
    <3>5. QED
      BY <3>2, <3>3, <3>4
  <2>4. QED
    BY <2>2, <2>3 DEF TypeOK
<1>3. ASSUME NEW c \in Copier
      PROVE  CopyBook(copier[c])'
  <2> DEFINE k == copier[c]
  <2>1. k \in Copiers /\ CopyBook(k) /\ copier'[c] = Copied(k)
    BY DEF TypeOK, Books, RenderOnce, Served
  <2>2. CASE k.frame = "none"
    BY <1>1, <2>1, <2>2 DEF Copied, CopyHolds, CopyBook
  <2>3. CASE k.frame # "none"
    BY <1>1, <2>1, <2>3, CopiedShows DEF CopyBook
  <2>4. QED
    BY <2>2, <2>3
<1>4. QED
  BY <1>2, <1>3 DEF Books

\* Every other step is to the books what it is to the damage.
LEMMA SceneBooks ==
  ASSUME IInv,
         \/ \E r \in Region, p \in Paint : Draw(r, p)
         \/ \E p \in Paint : DrawLock(p) \/ WindowCommits(p)
         \/ WindowCloses
         \/ \E m \in Mode : Resize(m)
         \/ \E on \in BOOLEAN : SetLocked(on)
         \/ SetPreview
  PROVE  Books'
<1> USE DEF IInv
<1>1. CASE \E r \in Region, p \in Paint : Draw(r, p)
  <2>1. PICK r \in Region, p \in Paint : Draw(r, p)
    BY <1>1
  <2>2. stream' = stream /\ mode' = mode /\ locked' = locked /\ face' = face
    BY <2>1 DEF Draw
  <2>3. CASE locked
    BY <2>1, <2>2, <2>3 DEF Draw, Books, StreamBook, CopyBook, Screen, Drawn
  <2>4. CASE ~locked
    <3>1. due' = due \cup {r} /\ \A q \in Region \ {r} : Screen'[q] = Screen[q]
      BY <2>1, <2>2, <2>4 DEF Draw, Damages, Screen, TypeOK
    <3>2. \A c \in Copier : copier'[c].due = copier[c].due \cup {r}
                            /\ copier'[c].got = copier[c].got
      BY <2>1, <2>4 DEF Draw, Damages, TypeOK, Copiers
    <3>3. QED
      BY <2>2, <3>1, <3>2 DEF Books, StreamBook, CopyBook
  <2>5. QED
    BY <2>3, <2>4
<1>2. CASE \/ \E p \in Paint : DrawLock(p)
           \/ \E m \in Mode : Resize(m)
           \/ \E on \in BOOLEAN : SetLocked(on)
  <2>1. stream' = stream /\ Damages(Region)
    BY <1>2 DEF DrawLock, Resize, SetLocked
  <2>2. due' = Region /\ \A c \in Copier : copier'[c].due = Region
    BY <2>1 DEF Damages, TypeOK, Copiers
  <2>3. QED
    BY <2>1, <2>2 DEF Books, StreamBook, CopyBook
<1>3. CASE (\E p \in Paint : WindowCommits(p)) \/ WindowCloses \/ SetPreview
  <2>1. UNCHANGED <<stream, copier, due, mode, locked, desk, face>>
    BY <1>3 DEF WindowCommits, WindowCloses, SetPreview
  <2>2. QED
    BY <2>1 DEF Books, StreamBook, CopyBook, Screen
<1>4. QED
  BY <1>1, <1>2, <1>3

LEMMA ClientBooks ==
  ASSUME IInv,
         \/ \E s \in Stream : OpenStream(s) \/ \E open \in BOOLEAN : StreamTurns(s, open)
         \/ \E g \in Graft : OpenGraft(g) \/ \E open \in BOOLEAN : GraftTurns(g, open)
         \/ \E c \in Copier : DestroyFrame(c) \/ DestroyManager(c)
         \/ \E c \in Copier, f \in {"copy", "damage"} : Copy(c, f)
         \/ \E on \in BOOLEAN : SetScreenCapture(on)
  PROVE  Books'
<1> USE DEF IInv
<1>1. Screen' = Screen /\ mode' = mode /\ due' = due
  BY DEF OpenStream, StreamTurns, OpenGraft, GraftTurns, DestroyFrame, DestroyManager,
         Copy, SetScreenCapture, Screen
<1>2. ASSUME NEW s \in Stream
      PROVE  StreamBook(stream'[s])
  <2>1. stream[s] \in Streams /\ StreamBook(stream[s])
    BY DEF TypeOK, Books
  <2>2. \/ stream'[s] = stream[s]
        \/ stream'[s] = Turned(stream[s])
        \/ stream'[s] = NewStream
        \/ stream'[s] = [NewStream EXCEPT !.open = TRUE]
    BY DEF OpenStream, StreamTurns, OpenGraft, GraftTurns, DestroyFrame, DestroyManager,
           Copy, SetScreenCapture, TypeOK
  <2>3. StreamBook(Turned(stream[s]))
    BY <2>1 DEF StreamBook, Turned, Streams
  <2>4. StreamBook(NewStream) /\ StreamBook([NewStream EXCEPT !.open = TRUE])
    BY DEF StreamBook, NewStream
  <2>5. QED
    BY <2>1, <2>2, <2>3, <2>4
<1>3. ASSUME NEW c \in Copier
      PROVE  CopyBook(copier'[c])
  <2>1. copier[c] \in Copiers /\ CopyBook(copier[c])
    BY DEF TypeOK, Books
  <2>2. copier'[c].got = copier[c].got /\ copier'[c].due \in {copier[c].due, Region}
    <3>1. CASE \E d \in Copier, f \in {"copy", "damage"} : Copy(d, f)
      BY <3>1 DEF Copy, TypeOK, Copiers
    <3>2. CASE \E d \in Copier : DestroyFrame(d) \/ DestroyManager(d)
      BY <3>2 DEF DestroyFrame, DestroyManager, TypeOK, Copiers
    <3>3. CASE \E on \in BOOLEAN : SetScreenCapture(on)
      BY <3>3, <2>1 DEF SetScreenCapture, Copiers
    <3>4. CASE copier' = copier
      BY <3>4
    <3>5. QED
      BY <3>1, <3>2, <3>3, <3>4 DEF OpenStream, StreamTurns, OpenGraft, GraftTurns
  <2>3. QED
    BY <2>1, <2>2 DEF CopyBook
<1>4. QED
  BY <1>1, <1>2, <1>3 DEF Books, StreamBook, CopyBook

LEMMA CaptureInit == Init => IInv
<1> SUFFICES ASSUME Init PROVE IInv
  OBVIOUS
<1>1. TypeOK
  BY NewTypes DEF Init, TypeOK
<1>2. Consented /\ Books
  BY DEF Init, Consented, Books, StreamBook, CopyBook, NewStream, NewGraft, NewCopier
<1>3. QED
  BY <1>1, <1>2 DEF IInv

LEMMA CaptureStep ==
  ASSUME IInv, [Next]_vars
  PROVE  IInv'
<1>1. TypeOK' /\ Consented'
  BY TypeStep, ConsentStep DEF IInv
<1>2. Books'
  <2>1. CASE UNCHANGED vars
    BY <2>1 DEF IInv, Books, StreamBook, CopyBook, Screen, vars
  <2>2. CASE Next
    BY <2>2, SceneBooks, ClientBooks, RenderBooks DEF Next
  <2>3. QED
    BY <2>1, <2>2
<1>3. QED
  BY <1>1, <1>2 DEF IInv

LEMMA Invariant == Spec => []IInv
  BY CaptureInit, CaptureStep, PTL DEF Spec

----------------------------------------------------------------------------
(* The theorems.                                                            *)

\* Every variable of Capture keeps its type.
THEOREM CaptureTypeCorrect == Spec => []TypeOK
<1>1. IInv => TypeOK
  BY DEF IInv
<1>2. QED
  BY <1>1, Invariant, PTL

\* A stream of the output that has room is, with the next render, exactly what
\* is rendered, whatever was missed before (push_capture).
THEOREM StreamsAreExact == Spec => []StreamExact
<1>1. ASSUME IInv, NEW s \in Stream, stream[s].open, ~stream[s].draining
      PROVE  Streamed(stream[s]).said = (IF Static THEN Filled ELSE Screen)
  BY <1>1, StreamedShows DEF IInv, TypeOK, Books
<1>2. IInv => StreamExact
  BY <1>1 DEF StreamExact
<1>3. QED
  BY <1>2, Invariant, PTL

\* A client that copies what it is told has changed has a copy of the screen
\* (has_damage_for_client, process_pending).
THEOREM CopiesAreExact == Spec => []CopyExact
<1>1. ASSUME IInv, NEW c \in Copier, copier[c].frame # "none"
      PROVE  Copied(copier[c]).got = Screen
  BY <1>1, CopiedShows DEF IInv, TypeOK, Books
<1>2. IInv => CopyExact
  BY <1>1 DEF CopyExact
<1>3. QED
  BY <1>2, Invariant, PTL

\* Locked, a stream, a copy or a window's stream is sent nothing of the desktop
\* (compose_scene, push_capture, push_window_capture).
HidesNow ==
  locked' =>
    /\ \A s \in Stream, r \in Region :
         stream'[s].said[r] # stream[s].said[r] => stream'[s].said[r][1] # "desk"
    /\ \A c \in Copier, r \in Region :
         copier'[c].got[r] # copier[c].got[r] => copier'[c].got[r][1] # "desk"
    /\ \A g \in Graft : graft'[g].said \in {graft[g].said, None}

LEMMA RenderHides ==
  ASSUME IInv, RenderOnce
  PROVE  HidesNow
<1> USE DEF IInv
<1> SUFFICES ASSUME locked'
             PROVE  HidesNow
  BY DEF HidesNow
<1>1. locked
  BY DEF RenderOnce
<1>2. \A r \in Region : Screen[r][1] = "lock" /\ Filled[r][1] = "fill" /\ Blank[r][1] = "none"
  BY <1>1 DEF Screen, Filled, Blank, Drawn
<1>3. ASSUME NEW s \in Stream, NEW r \in Region,
             stream'[s].said[r] # stream[s].said[r]
      PROVE  stream'[s].said[r][1] # "desk"
  <2> DEFINE k == stream[s]
  <2>1. k \in Streams
    BY DEF TypeOK
  <2>2. stream'[s] = Streamed(k)
    BY <1>3 DEF RenderOnce, Served
  <2>3. Streamed(k).said # k.said => Streamed(k) = Sent(k)
    BY <2>1 DEF Streamed, Streams
  <2>4. Sent(k).said[r] \in {Filled[r], Screen[r], Blank[r], k.said[r]}
    BY <2>1 DEF Sent, Streams
  <2>5. QED
    BY <1>2, <1>3, <2>2, <2>3, <2>4
<1>4. ASSUME NEW c \in Copier, NEW r \in Region
      PROVE  copier'[c].got[r] \in {Screen[r], copier[c].got[r]}
  BY DEF RenderOnce, Served, Copied, TypeOK, Copiers
<1>5. ASSUME NEW g \in Graft
      PROVE  graft'[g].said = graft[g].said
  BY <1>1 DEF RenderOnce, Served, Grafted
<1>6. QED
  BY <1>2, <1>3, <1>4, <1>5 DEF HidesNow

LEMMA SceneHides ==
  ASSUME TypeOK,
         \/ \E p \in Paint : DrawLock(p) \/ WindowCommits(p) \/ \E r \in Region : Draw(r, p)
         \/ WindowCloses \/ SetPreview
         \/ \E m \in Mode : Resize(m)
         \/ \E on \in BOOLEAN : SetLocked(on)
  PROVE  HidesNow
<1>1. CASE \E p \in Paint : DrawLock(p) \/ WindowCommits(p) \/ \E r \in Region : Draw(r, p)
  <2>1. PICK p \in Paint : DrawLock(p) \/ WindowCommits(p) \/ \E r \in Region : Draw(r, p)
    BY <1>1
  <2>2. CASE DrawLock(p)
    BY <2>2 DEF DrawLock, Damages, HidesNow, TypeOK, Copiers
  <2>3. CASE WindowCommits(p)
    BY <2>3 DEF WindowCommits, HidesNow, TypeOK, Grafts
  <2>4. CASE \E r \in Region : Draw(r, p)
    <3>1. PICK r \in Region : Draw(r, p)
      BY <2>4
    <3>2. CASE locked
      BY <3>1, <3>2 DEF Draw, HidesNow
    <3>3. CASE ~locked
      BY <3>1, <3>3 DEF Draw, HidesNow
    <3>4. QED
      BY <3>2, <3>3
  <2>5. QED
    BY <2>1, <2>2, <2>3, <2>4
<1>2. CASE WindowCloses \/ SetPreview
  BY <1>2 DEF WindowCloses, SetPreview, HidesNow
<1>3. CASE \E m \in Mode : Resize(m)
  BY <1>3 DEF Resize, Damages, HidesNow, TypeOK, Copiers
<1>4. CASE \E on \in BOOLEAN : SetLocked(on)
  BY <1>4 DEF SetLocked, Damages, HidesNow, TypeOK, Copiers
<1>5. QED
  BY <1>1, <1>2, <1>3, <1>4

LEMMA ClientsHide ==
  ASSUME TypeOK,
         \/ \E s \in Stream : OpenStream(s) \/ \E open \in BOOLEAN : StreamTurns(s, open)
         \/ \E g \in Graft : OpenGraft(g) \/ \E open \in BOOLEAN : GraftTurns(g, open)
         \/ \E c \in Copier :
              DestroyFrame(c) \/ DestroyManager(c) \/ \E f \in {"copy", "damage"} : Copy(c, f)
         \/ \E on \in BOOLEAN : SetScreenCapture(on)
  PROVE  HidesNow
<1>b. \A r \in Region : Blank[r][1] = "none"
  BY DEF Blank, Drawn
<1>1. CASE \E s \in Stream : OpenStream(s) \/ \E open \in BOOLEAN : StreamTurns(s, open)
  <2>1. PICK s \in Stream : OpenStream(s) \/ \E open \in BOOLEAN : StreamTurns(s, open)
    BY <1>1
  <2>2. copier' = copier /\ graft' = graft
    BY <2>1 DEF OpenStream, StreamTurns
  <2>3. \A t \in Stream : stream'[t].said \in {stream[t].said, Blank}
    <3>1. CASE OpenStream(s)
      BY <3>1 DEF OpenStream, NewStream, TypeOK
    <3>2. CASE \E open \in BOOLEAN : StreamTurns(s, open)
      <4>1. PICK open \in BOOLEAN : StreamTurns(s, open)
        BY <3>2
      <4>2. Turned(stream[s]).said = stream[s].said
        BY DEF Turned, TypeOK, Streams
      <4>3. NewStream.said = Blank
        BY DEF NewStream
      <4>4. QED
        BY <4>1, <4>2, <4>3 DEF StreamTurns, TypeOK
    <3>3. QED
      BY <2>1, <3>1, <3>2
  <2>4. QED
    BY <1>b, <2>2, <2>3 DEF HidesNow
<1>2. CASE \E g \in Graft : OpenGraft(g) \/ \E open \in BOOLEAN : GraftTurns(g, open)
  <2>1. PICK g \in Graft : OpenGraft(g) \/ \E open \in BOOLEAN : GraftTurns(g, open)
    BY <1>2
  <2>2. copier' = copier /\ stream' = stream
    BY <2>1 DEF OpenGraft, GraftTurns
  <2>3. \A h \in Graft : graft'[h].said \in {graft[h].said, None}
    <3>1. CASE OpenGraft(g)
      BY <3>1 DEF OpenGraft, NewGraft, TypeOK
    <3>2. CASE \E open \in BOOLEAN : GraftTurns(g, open)
      <4>1. PICK open \in BOOLEAN : GraftTurns(g, open)
        BY <3>2
      <4>2. Turned(graft[g]).said = graft[g].said
        BY DEF Turned, TypeOK, Grafts
      <4>3. NewGraft.said = None
        BY DEF NewGraft
      <4>4. QED
        BY <4>1, <4>2, <4>3 DEF GraftTurns, TypeOK
    <3>3. QED
      BY <2>1, <3>1, <3>2
  <2>4. QED
    BY <2>2, <2>3 DEF HidesNow
<1>3. CASE \E c \in Copier :
             DestroyFrame(c) \/ DestroyManager(c) \/ \E f \in {"copy", "damage"} : Copy(c, f)
  <2>1. PICK c \in Copier :
          DestroyFrame(c) \/ DestroyManager(c) \/ \E f \in {"copy", "damage"} : Copy(c, f)
    BY <1>3
  <2>2. stream' = stream /\ graft' = graft
    BY <2>1 DEF DestroyFrame, DestroyManager, Copy
  <2>3. \A d \in Copier : copier'[d].got = copier[d].got
    <3>1. CASE DestroyFrame(c) \/ DestroyManager(c)
      BY <3>1 DEF DestroyFrame, DestroyManager, TypeOK, Copiers
    <3>2. CASE \E f \in {"copy", "damage"} : Copy(c, f)
      BY <3>2 DEF Copy, TypeOK, Copiers
    <3>3. QED
      BY <2>1, <3>1, <3>2
  <2>4. QED
    BY <2>2, <2>3 DEF HidesNow
<1>4. CASE \E on \in BOOLEAN : SetScreenCapture(on)
  <2>1. PICK on \in BOOLEAN : SetScreenCapture(on)
    BY <1>4
  <2>2. CASE on
    BY <2>1, <2>2 DEF SetScreenCapture, HidesNow
  <2>3. CASE ~on
    <3>1. \A s \in Stream : stream'[s].said = Blank
      BY <2>1, <2>3 DEF SetScreenCapture, NewStream
    <3>2. \A g \in Graft : graft'[g].said = None
      BY <2>1, <2>3 DEF SetScreenCapture, NewGraft
    <3>3. \A c \in Copier : copier'[c].got = copier[c].got
      BY <2>1, <2>3 DEF SetScreenCapture, TypeOK, Copiers
    <3>4. QED
      BY <1>b, <3>1, <3>2, <3>3 DEF HidesNow
  <2>4. QED
    BY <2>2, <2>3
<1>5. QED
  BY <1>1, <1>2, <1>3, <1>4

\* While the session is locked, no stream and no copy shows more of the desktop
\* than it did (push_capture, process_pending, render_and_push).
THEOREM LockHidesDesktop == Spec => LockHides
<1>1. IInv /\ [Next]_vars => [HidesNow]_vars
  BY RenderHides, SceneHides, ClientsHide DEF IInv, Next
<1>2. [][HidesNow]_vars <=> LockHides
  BY PTL DEF LockHides, HidesNow
<1>3. QED
  BY <1>1, <1>2, Invariant, PTL DEF Spec
=============================================================================

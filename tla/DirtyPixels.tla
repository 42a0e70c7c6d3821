---------------------------- MODULE DirtyPixels ----------------------------
(***************************************************************************)
(* The way of the picture of one child to its page: the child draws and    *)
(* sends rectangles (the UNIX socket), us_on_client_data copies them to    *)
(* the shadow frame buffer and accumulates the dirty rectangle, the idle   *)
(* loop saves that rectangle to a PNG file and announces it (src/src/      *)
(* unixsocket.c, check_dirty_pixels of websocket.c), and the page loads    *)
(* the images and draws them on its canvas (src/web/webdisplay.js).        *)
(***************************************************************************)
EXTENDS Integers, Sequences, SequencesExt

CONSTANTS
    Width, Height,  \* us_client->vfb_info
    Colors,         \* the pixels of the child's frame buffer
    Shades,         \* the RGB888 pixels of the shadow frame buffer
    Rgb888,         \* the conversion of one to the other
    Blank,          \* a pixel that nobody has drawn yet
    ChildRects,     \* the rectangles the child draws
    Pictures,       \* what it draws in them
    Rubbish,        \* pictures that memory from malloc() may hold
    Slow,           \* whether the page may be slow enough to be throttled
    MaxDraws,       \* bound: how often the child draws
    PipeLimit       \* bound: how many rectangles the UNIX socket holds

Pixels == (0 .. Width - 1) \X (0 .. Height - 1)
RECT == [left : 0 .. Width, top : 0 .. Height, right : 0 .. Width, bottom : 0 .. Height]

Area(rc) == {p \in Pixels : /\ rc.left <= p[1] /\ p[1] < rc.right
                            /\ rc.top <= p[2] /\ p[2] < rc.bottom}

ASSUME SizeAssumption == Width \in Nat \ {0} /\ Height \in Nat \ {0}
ASSUME ColorsAssumption == /\ Rgb888 \in [Colors -> Shades]
                           /\ Blank \notin Colors /\ Blank \notin Shades
ASSUME PicturesAssumption == /\ ChildRects \subseteq RECT
                             /\ Pictures \subseteq [Pixels -> Colors]
                             /\ Rubbish \subseteq [Pixels -> Shades] /\ Rubbish # {}
ASSUME BoundsAssumption == Slow \in BOOLEAN /\ MaxDraws \in Nat /\ PipeLimit \in Nat \ {0}

VARIABLES
    vfb,        \* the child's frame buffer
    draws,      \* how often the child has drawn
    pipe,       \* what it has sent: rectangles with their pixels
    instep,     \* the server reads headers where the child has written headers
    shadow_fb,  \* us_client->shadow_fb
    rc_dirty,   \* us_client->rc_dirty
    due,        \* MAX_FLUSH_PIXELS_TIME is over, or a new second has begun
    pc,         \* where the loop is: in check_dirty_pixels, or elsewhere
    throttled,  \* WS_THROTTLING and a queue
    up,         \* the connection to the page stands
    saved,      \* how many PNG files have been announced; their names are times
    coming,     \* the announcements on their way to the page
    loading,    \* the images the page is loading
    canvas,     \* the page's canvas, and which image each pixel is from
    sent,       \* history: what the server last announced of each pixel
    newest,     \* history: the newest image drawn at each pixel
    missed      \* history: pixels whose last announcement was dropped

child == <<vfb, draws>>
server == <<instep, shadow_fb, rc_dirty, due, pc, throttled, up, saved>>
page == <<loading, canvas, newest>>
vars == <<child, pipe, server, coming, page, sent, missed>>

Drawing == [rc : RECT, pixels : [Pixels -> Colors]]
Image == [rc : RECT, pixels : [Pixels -> Shades], at : Nat]
Shown == [at : Nat, shade : Shades \cup {Blank}]

TypeOK == /\ vfb \in [Pixels -> Colors \cup {Blank}]
          /\ draws \in Nat
          /\ pipe \in Seq(Drawing)
          /\ instep \in BOOLEAN
          /\ shadow_fb \in [Pixels -> Shades]
          /\ rc_dirty \in RECT
          /\ due \in BOOLEAN
          /\ pc \in {"loop", "save", "failed"}
          /\ throttled \in BOOLEAN
          /\ up \in BOOLEAN
          /\ saved \in Nat
          /\ coming \in Seq(Image)
          /\ loading \in SUBSET Image
          /\ canvas \in [Pixels -> Shown]
          /\ sent \in [Pixels -> Shown]
          /\ newest \in [Pixels -> Nat]
          /\ missed \subseteq Pixels

NoRect == [left |-> 0, top |-> 0, right |-> 0, bottom |-> 0]
NothingShown == [p \in Pixels |-> [at |-> 0, shade |-> Blank]]

Init == /\ vfb = [p \in Pixels |-> Blank]
        /\ draws = 0
        /\ pipe = <<>>
        /\ instep = TRUE
        /\ shadow_fb \in Rubbish
        /\ rc_dirty = NoRect
        /\ due = FALSE
        /\ pc = "loop"
        /\ throttled = FALSE
        /\ up = TRUE
        /\ saved = 0
        /\ coming = <<>>
        /\ loading = {}
        /\ canvas = NothingShown
        /\ sent = NothingShown
        /\ newest = [p \in Pixels |-> 0]
        /\ missed = {}

-----------------------------------------------------------------------------
(* The child *)

Draws(rc, pixels) ==
    /\ draws < MaxDraws
    /\ Len(pipe) < PipeLimit
    /\ draws' = draws + 1
    /\ vfb' = [p \in Pixels |-> IF p \in Area(rc) THEN pixels[p] ELSE vfb[p]]
    /\ pipe' = Append(pipe, [rc |-> rc, pixels |-> pixels])
    /\ UNCHANGED <<server, coming, page, sent, missed>>

-----------------------------------------------------------------------------
(* us_on_client_data *)

Lesser(a, b) == IF a < b THEN a ELSE b
Greater(a, b) == IF a > b THEN a ELSE b

\* Mutant: the right and bottom edges are merged like the others.
Merged_Shrinks(rc, new) ==
    IF rc.right - rc.left <= 0 /\ rc.bottom - rc.top <= 0 THEN new
    ELSE [left  |-> Lesser(rc.left, new.left),    top    |-> Lesser(rc.top, new.top),
          right |-> Lesser(rc.right, new.right),  bottom |-> Lesser(rc.bottom, new.bottom)]

\* The whole dirty rectangle, unless it is empty both ways.
Merged(rc, new) ==
    IF rc.right - rc.left <= 0 /\ rc.bottom - rc.top <= 0 THEN new
    ELSE [left  |-> Lesser(rc.left, new.left),     top    |-> Lesser(rc.top, new.top),
          right |-> Greater(rc.right, new.right),  bottom |-> Greater(rc.bottom, new.bottom)]

\* Mutant: the pixels are copied as they are.
Converted_Raw(pixels) == pixels

Converted(pixels) == [p \in Pixels |-> Rgb888[pixels[p]]]

\* Some pixels of a buffer replaced.
Copied(fb, area, shades) == [p \in Pixels |-> IF p \in area THEN shades[p] ELSE fb[p]]

\* The read() of a row may be short; its other pixels are then what the buffer
\* held, the function goes on, and nothing is in step any more.
us_on_client_data ==
    /\ up /\ instep
    /\ pc = "loop"
    /\ pipe # <<>>
    /\ LET rc == Head(pipe).rc
           read == Copied(shadow_fb, Area(rc), Converted(Head(pipe).pixels))
       IN  /\ rc_dirty' = Merged(rc_dirty, rc)
           /\ \/ /\ shadow_fb' = read
                 /\ UNCHANGED instep
              \/ /\ \E rubbish \in Rubbish, short \in SUBSET Area(rc) :
                       shadow_fb' = Copied(read, short, rubbish)
                 /\ instep' = FALSE
    /\ pipe' = Tail(pipe)
    /\ UNCHANGED <<child, due, pc, throttled, up, saved, coming, page, sent, missed>>

\* The header or the rectangle is cut short, or malloc() fails: the function returns,
\* with the rest of the message still to be read.
ClientDataFails ==
    /\ up /\ instep
    /\ pc = "loop"
    /\ pipe # <<>>
    /\ instep' = FALSE
    /\ UNCHANGED <<child, pipe, shadow_fb, rc_dirty, due, pc, throttled, up, saved,
                   coming, page, sent, missed>>

-----------------------------------------------------------------------------
(* check_dirty_pixels *)

TimePasses == /\ up
              /\ due' = TRUE
              /\ UNCHANGED <<child, pipe, instep, shadow_fb, rc_dirty, pc, throttled, up, saved,
                             coming, page, sent, missed>>

\* Mutant: a rectangle one pixel wide counts as empty.
us_check_dirty_pixels_Wide == /\ rc_dirty.right - rc_dirty.left > 1
                              /\ rc_dirty.bottom - rc_dirty.top > 0
                              /\ due

us_check_dirty_pixels == /\ rc_dirty.right - rc_dirty.left > 0
                         /\ rc_dirty.bottom - rc_dirty.top > 0
                         /\ due

Go(here, there) ==
    /\ up
    /\ pc = here
    /\ pc' = there
    /\ UNCHANGED <<child, pipe, instep, shadow_fb, rc_dirty, due, throttled, up, saved,
                   coming, page, sent, missed>>

\* select() has timed out.
Flush == us_check_dirty_pixels /\ Go("loop", "save")

\* save_dirty_pixels_to_png fails, and the walk continues: with the same client.
SaveFails == Go("save", "failed")
Continue == Go("failed", "save")

us_reset_dirty_pixels == rc_dirty' = NoRect /\ due' = FALSE

\* ws_send_dirty_info has the frame sent or queued ...
Undertaken ==
    /\ ~throttled
    /\ saved' = saved + 1
    /\ coming' = Append(coming, [rc |-> rc_dirty, pixels |-> shadow_fb, at |-> saved'])
    /\ sent' = [p \in Pixels |-> IF p \in Area(rc_dirty)
                                 THEN [at |-> saved', shade |-> shadow_fb[p]] ELSE sent[p]]
    /\ missed' = missed \ Area(rc_dirty)
    /\ throttled' \in {FALSE, Slow}
    /\ UNCHANGED up

\* ... or it is dropped, the client being throttled, and the queue attempted
\* instead ...
Dropped ==
    /\ throttled
    /\ missed' = missed \cup Area(rc_dirty)
    /\ throttled' \in BOOLEAN
    /\ UNCHANGED <<up, saved, coming, sent>>

\* ... or the connection is found broken, or realloc() fails.
Broken ==
    /\ up' = FALSE
    /\ UNCHANGED <<throttled, saved, coming, sent, missed>>

\* save_dirty_pixels_to_png has saved the rectangle.  ws_send_data returns 0 in any
\* case.
Announce ==
    /\ up
    /\ pc = "save"
    /\ pc' = "loop"
    /\ Undertaken \/ Dropped \/ Broken
    /\ us_reset_dirty_pixels
    /\ UNCHANGED <<child, pipe, instep, shadow_fb, page>>

\* Other frames fill the client's queue, handle_ws_writes empties it, and a read
\* handler overwrites its status.
Throttling == /\ up
              /\ pc = "loop"
              /\ throttled' \in {FALSE, Slow}
              /\ UNCHANGED <<child, pipe, instep, shadow_fb, rc_dirty, due, pc, up, saved,
                             coming, page, sent, missed>>

\* The child has exited, and us_on_client_data reads 0; or the page goes, or fails.
handle_tcp_close ==
    /\ up
    /\ pc = "loop"
    /\ up' = FALSE
    /\ UNCHANGED <<child, pipe, instep, shadow_fb, rc_dirty, due, pc, throttled, saved,
                   coming, page, sent, missed>>

-----------------------------------------------------------------------------
(* The page *)

\* Mutant: one Image object for all messages, whose new src cancels the old.
Loading_One(image) == {image}

\* The src of a new Image is set: the browser begins to load it beside the others.
Loading(image) == loading \cup {image}

onmessage == /\ up
             /\ coming # <<>>
             /\ coming' = Tail(coming)
             /\ loading' = Loading(Head(coming))
             /\ UNCHANGED <<child, pipe, server, canvas, newest, sent, missed>>

Drawn(image) ==
    [p \in Pixels |-> IF p \in Area(image.rc)
                      THEN [at |-> image.at, shade |-> image.pixels[p]] ELSE canvas[p]]

\* Images are loaded in any order, and drawn as they come.
onload(image) ==
    /\ up
    /\ image \in loading
    /\ loading' = loading \ {image}
    /\ canvas' = Drawn(image)
    /\ newest' = [p \in Pixels |-> IF p \in Area(image.rc) THEN Greater(newest[p], image.at)
                                                           ELSE newest[p]]
    /\ UNCHANGED <<child, pipe, server, coming, sent, missed>>

-----------------------------------------------------------------------------
Next == \/ \E rc \in ChildRects, pixels \in Pictures : Draws(rc, pixels)
        \/ us_on_client_data
        \/ ClientDataFails
        \/ handle_tcp_close
        \/ TimePasses
        \/ Flush
        \/ SaveFails
        \/ Continue
        \/ Announce
        \/ Throttling
        \/ onmessage
        \/ \E image \in loading : onload(image)

Spec == Init /\ [][Next]_vars

(***************************************************************************)
(* Fairness.  The server reads what is sent, time passes, select() times   *)
(* out again and again, a pass over the clients goes on, and the page gets *)
(* and loads its images.  A healthy server can also save files.            *)
(***************************************************************************)
FairSpec == /\ Spec
            /\ WF_vars(us_on_client_data)
            /\ WF_vars(TimePasses)
            /\ WF_vars(Flush)
            /\ WF_vars(SaveFails \/ Announce)
            /\ WF_vars(Continue)
            /\ WF_vars(onmessage)
            /\ WF_vars(\E image \in loading : onload(image))

HealthySpec == FairSpec /\ SF_vars(Announce)

-----------------------------------------------------------------------------
(* Where a pixel's colour is *)

InPipe(p) == \E i \in DOMAIN pipe : p \in Area(pipe[i].rc)
InDirty(p) == p \in Area(rc_dirty)
UnderWay == loading \cup ToSet(coming)
Behind(p) == canvas[p].at < newest[p]
Shows(p) == canvas[p].shade = Rgb888[vfb[p]]
Watching == up /\ instep

-----------------------------------------------------------------------------
(* Safety *)

\* Whatever the child has drawn that the server did not announce last is still in
\* the socket, or in the accumulated dirty rectangle, however rectangles are
\* merged and reset, or in an announcement dropped for the throttle.
UnsentIsKnown ==
    Watching => \A p \in Pixels : vfb[p] # Blank =>
        sent[p].shade = Rgb888[vfb[p]] \/ InPipe(p) \/ InDirty(p) \/ p \in missed

\* No pixel goes astray between child and page: its colour is on the canvas, or in
\* one of the stages on the way, unless its announcement was dropped or an older
\* image was drawn over it.
Accounted ==
    Watching => \A p \in Pixels : vfb[p] # Blank =>
        \/ Shows(p) \/ InPipe(p) \/ InDirty(p)
        \/ \E image \in UnderWay : p \in Area(image.rc) /\ image.pixels[p] = Rgb888[vfb[p]]
        \/ p \in missed \/ Behind(p)

-----------------------------------------------------------------------------
(* Liveness *)

\* What the child has drawn is shown in the end, with the same exceptions: flushing
\* does not forget a rectangle, be it a single pixel.
Settles == \A p \in Pixels, c \in Colors :
    vfb[p] = c ~> \/ vfb[p] # c \/ Shows(p)
                  \/ p \in missed \/ Behind(p) \/ ~Watching

-----------------------------------------------------------------------------
(* What a comment of the code says and the code does not do. *)

\* unixsocket.h:50 "the dirty rectangle which is not sent to WSClient": what has been
\* received and not been announced is in it.
NotSentIsDirty ==
    Watching => \A p \in Pixels : vfb[p] # Blank =>
        sent[p].shade = Rgb888[vfb[p]] \/ InPipe(p) \/ InDirty(p)
=============================================================================

---------------------------- MODULE Attachments ----------------------------
(***************************************************************************)
(* The tile of an attachment (attachment.tsx): its thumbnail and its       *)
(* preview each hold an object URL of the attached file, made and revoked  *)
(* by an effect that runs after the rendering.                             *)
(***************************************************************************)
EXTENDS Naturals

CONSTANTS File, MaxUrls, NoFile, NoSrc
ASSUME AttachmentsAssumption ==
  NoFile \notin File /\ MaxUrls \in Nat /\ NoSrc \notin Nat

Holders == {"thumb", "dialog"}
FromContent == 0  \* the src of an image in the content; object URLs count from 1

VARIABLES
  tile,    \* the attachment: [shown, image, file, content]
  hook,    \* useFileSrc of each holder: the file its effect saw, its src
  live,    \* object URLs not yet revoked
  made,    \* bound: object URLs made
  preview, \* the dialog of the image: open, and its image has been loaded
  painted  \* the src the thumbnail shows, NoSrc while it shows its fallback

attachmentVars == <<tile, hook, live, made, preview, painted>>

NewHook == [file |-> NoFile, src |-> NoSrc]
NoTile == [shown |-> FALSE, image |-> FALSE, file |-> NoFile, content |-> FALSE]
Closed == [open |-> FALSE, loaded |-> FALSE]

AttachmentsInit ==
  /\ tile = NoTile
  /\ hook = [h \in Holders |-> NewHook]
  /\ live = {} /\ made = 0
  /\ preview = Closed /\ painted = NoSrc

\* useAttachmentSrc: the file, or else the image in the content, of an image.
SelectedFile == IF tile.image THEN tile.file ELSE NoFile
SrcOf(t, held) ==
  IF held.src # NoSrc THEN held.src
  ELSE IF t.image /\ t.file = NoFile /\ t.content THEN FromContent ELSE NoSrc
Src(h) == SrcOf(tile, hook[h])

AttachmentsTypeOK ==
  /\ tile \in [shown : BOOLEAN, image : BOOLEAN, file : File \cup {NoFile}, content : BOOLEAN]
  /\ hook \in [Holders -> [file : File \cup {NoFile}, src : 1..MaxUrls \cup {NoSrc}]]
  /\ live \subseteq 1..made /\ made \in 0..MaxUrls
  /\ preview \in [open : BOOLEAN, loaded : BOOLEAN]
  /\ painted \in {NoSrc, Src("thumb")}

\* The tile is wrapped in a dialog if it has a src to show (AttachmentUI).
Wraps(src) == src # NoSrc

\* The hooks once some have run: where the tile is wrapped in a dialog, or is
\* not any more, the thumbnail inside is another one, the last cleaned up, and
\* the dialog goes as it was, open or not.  An avatar whose src has changed shows
\* its fallback till that one is loaded.
WithHooks(hooks, gone, added) ==
  LET rewrapped == Wraps(Src("dialog")) # Wraps(SrcOf(tile', hooks["dialog"])) IN
  /\ hook' = IF rewrapped THEN [hooks EXCEPT !["thumb"] = NewHook] ELSE hooks
  /\ live' = ((live \ gone) \cup added) \ (IF rewrapped THEN {hooks["thumb"].src} ELSE {})
  /\ preview' = IF rewrapped THEN Closed ELSE preview
  /\ painted' = IF rewrapped \/ SrcOf(tile', hook'["thumb"]) # Src("thumb")
                THEN NoSrc ELSE painted

\* The effect of a holder whose file has changed: the clean-up of the last one,
\* then a URL for the new file.
UrlEffects ==
  /\ tile.shown /\ UNCHANGED tile
  /\ \E h \in Holders :
       LET new == made + 1
           saw == IF SelectedFile = NoFile THEN NewHook
                  ELSE [file |-> SelectedFile, src |-> new] IN
       /\ hook[h].file # SelectedFile
       /\ SelectedFile # NoFile => new <= MaxUrls
       /\ made' = IF SelectedFile = NoFile THEN made ELSE new
       /\ WithHooks([hook EXCEPT ![h] = saw], {hook[h].src}, {saw.src} \ {NoSrc})

\* Variant: an effect without a clean-up.
Unmount_leaves ==
  /\ hook' = [h \in Holders |-> NewHook] /\ preview' = Closed /\ painted' = NoSrc
  /\ UNCHANGED <<live, made>>

\* The tile goes, with the last clean-up of each holder.
Unmount ==
  /\ live' = live \ {hook[h].src : h \in Holders}
  /\ hook' = [h \in Holders |-> NewHook] /\ preview' = Closed /\ painted' = NoSrc
  /\ UNCHANGED made

Add(f, image) ==
  /\ ~tile.shown
  /\ tile' = [shown |-> TRUE, image |-> image, file |-> f, content |-> FALSE]
  /\ UNCHANGED <<hook, live, made, preview, painted>>

\* The adapter replaces the file, by another or by what was uploaded.
Replaced(f, content) ==
  /\ tile.shown
  /\ tile' = [tile EXCEPT !.file = f, !.content = content]
  /\ tile' # tile
  /\ WithHooks(hook, {}, {}) /\ UNCHANGED made

\* A removed attachment, or one that is sent and shown in the message instead.
RemoveTile == tile.shown /\ tile' = NoTile /\ Unmount

OpenPreview ==
  /\ tile.shown /\ Wraps(Src("dialog")) /\ ~preview.open
  /\ preview' = [open |-> TRUE, loaded |-> FALSE]
  /\ UNCHANGED <<tile, hook, live, made, painted>>

ClosePreview ==
  preview.open /\ preview' = Closed /\ UNCHANGED <<tile, hook, live, made, painted>>

\* onLoad of the image; nothing clears it when the image becomes another one.
PreviewLoaded ==
  /\ preview.open /\ ~preview.loaded
  /\ preview' = [preview EXCEPT !.loaded = TRUE]
  /\ UNCHANGED <<tile, hook, live, made, painted>>

\* The image of the avatar has loaded and takes the place of the fallback.
ThumbLoaded ==
  /\ tile.shown /\ Src("thumb") # painted /\ painted' = Src("thumb")
  /\ UNCHANGED <<tile, hook, live, made, preview>>

AttachmentsNext ==
  \/ UrlEffects \/ RemoveTile
  \/ OpenPreview \/ ClosePreview \/ PreviewLoaded \/ ThumbLoaded
  \/ \E f \in File, image \in BOOLEAN : Add(f, image)
  \/ \E f \in File \cup {NoFile}, content \in BOOLEAN : Replaced(f, content)

(***************************************************************************)
(* No object URL outlives the tile that made it or the file it was made    *)
(* for, and once its effects have run a tile shows none that is revoked:   *)
(* a URL lives exactly as long as the holder whose src it is.  The preview *)
(* is open only over a tile that has an image to show, and the thumbnail   *)
(* shows none whose URL is gone.                                           *)
(***************************************************************************)
UrlsHeld ==
  /\ live = {hook[h].src : h \in Holders} \ {NoSrc}
  /\ \A h \in Holders :
       tile.shown /\ hook[h].file = SelectedFile =>
         Src(h) # NoSrc <=> (tile.image /\ (tile.file # NoFile \/ tile.content))
  /\ preview.open => tile.shown /\ Wraps(Src("dialog"))
  /\ painted \in live \cup {NoSrc, FromContent}
=============================================================================

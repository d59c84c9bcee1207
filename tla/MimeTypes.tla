----------------------------- MODULE MimeTypes -----------------------------
(***************************************************************************)
(* domain/mimetypes/mime_types.go.  A detected type is the string the      *)
(* detection library returns: the media type ParseMediaType finds in it,   *)
(* and whether the string is that media type and nothing else (bare), or   *)
(* has parameters or capitals.  A string that does not parse has the media *)
(* type Unknown.                                                           *)
(***************************************************************************)
Unknown == "unknown"
Audio == {"audio/mpeg", "audio/wav", "audio/x-aiff"}
PDF == {"application/pdf"}
Image == {"image/png", "image/jpeg", "image/gif"}
Video == {"video/mp4"}
Text == {"text/plain", "text/html", "text/css", "application/json", "application/xml"}
Media == Audio \cup PDF \cup Image \cup Video \cup Text \cup {Unknown}

Detected == [media : Media, bare : BOOLEAN]

Matches(detected, expected) == detected.media # Unknown /\ detected.media = expected

IsAudio(detected) == \E m \in Audio : Matches(detected, m)
IsPDF(detected) == \E m \in PDF : Matches(detected, m)
IsImage(detected) == \E m \in Image : Matches(detected, m)
IsAuthorized(detected) == IsAudio(detected) \/ IsPDF(detected) \/ IsImage(detected)

\* The switch compares the whole string.
ToMIME(m) ==
  IF m.bare /\ m.media \in Audio \cup PDF \cup Image \cup Video THEN m.media ELSE Unknown
=============================================================================

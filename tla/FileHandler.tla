----------------------------- MODULE FileHandler ----------------------------
(* The REST handler /readFile: MCBackend::handleReadFile (MCBackend.cpp:    *)
(* 757-861).  It changes nothing and is not paced: all there is to it is an *)
(* answer for every request and every state of the file.                    *)

\* A path inside the server's folder may still have characters that no path
\* of the platform has.
FileRequest ==
  [ filePath   : {"absent", "notAString", "absolute", "upwards", "inside", "unencodable"},
    serverName : {"absent", "notAString", "unknown", "known"} ]

\* Minecraft writes its files while others read them.  One may be out of reach,
\* where even asking whether it exists fails, or hold bytes that are not UTF-8.
File == {"absent", "outOfReach", "locked", "notUtf8", "readable"}

\* Errors 1 to 9 are for what is wrong with the request, for a file that is
\* absent and for one that cannot be opened.  The conversion of the path,
\* exists and dump throw, and Crow answers with a status of 500.
FileAnswer(r, file) ==
  IF r.filePath = "unencodable" THEN "exception"
  ELSE IF r.filePath # "inside" \/ r.serverName # "known" THEN "refused"
  ELSE IF file \in {"outOfReach", "notUtf8"} THEN "exception"
  ELSE IF file = "readable" THEN "success" ELSE "refused"
=============================================================================

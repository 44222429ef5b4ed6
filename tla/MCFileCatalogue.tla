-------------------------- MODULE MCFileCatalogue --------------------------
(* Small machines for TLC: a text of Interact Box's own, wallpapers, a song, *)
(* and malware files, inert ones and ones that are ready to run.            *)
EXTENDS FileCatalogue, TLC

MCName == {"own", "wall", "wall2", "song", "virus", "inert", "live", "conf"}
MCOwn == {"own"}
MCInert == {"inert"}
MCActive == ("inert" :> "live")
MCDirOf ==
  [n \in MCName |->
     IF n \in {"virus", "inert", "live"} THEN "malware"
     ELSE IF n \in {"wall", "wall2"} THEN "wallpaper" ELSE "none"]
MCTypesOf ==
  [n \in MCName |->
     IF n \in {"own", "virus", "live"} THEN {"default"}
     ELSE IF n = "song" THEN {"default", "music"} ELSE {}]
MCImage == {"wall", "wall2"}
MCInstalled ==
  [e \in Editions |-> {"own", "wall", "inert"} \cup
     CASE e = "nt" -> {"song", "wall2"}
       [] e = "98" -> {"song", "virus"}
       [] OTHER -> {"virus", "conf"}]

\* "top" has "sub", and "sub" has "deep"; "etc" is a root of Linux.
MCDir == {"top", "sub", "deep", "etc"}
MCParentOf ==
  [n \in MCName \cup MCDir |->
     CASE n \in {"own", "song", "sub"} -> "top"
       [] n \in {"wall", "wall2", "virus", "deep"} -> "sub"
       [] n \in {"inert", "live"} -> "deep"
       [] n = "conf" -> "etc"
       [] OTHER -> NoPath]
MCRoots ==
  [e \in Editions |-> IF e = "linux" THEN <<"top", "etc">> ELSE <<"top">>]
=============================================================================

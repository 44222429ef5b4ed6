--------------------------- MODULE MCSoundScheme ---------------------------
(* Four packs for TLC: two with the names that the installer gives, which   *)
(* end with "_pack", and two that a user has made without that ending.      *)
EXTENDS SoundScheme, TLC

MCDir == {"default_pack", "kde_pack", "default", "bells"}
MCPack == {"default", "kde", "bells"}
MCNameOf ==
  "default_pack" :> "default" @@ "kde_pack" :> "kde" @@
  "default" :> "default" @@ "bells" :> "bells"
MCEndsWith ==
  "default_pack" :> {} @@ "kde_pack" :> {} @@
  "default" :> {"default"} @@ "bells" :> {"bells"}
=============================================================================

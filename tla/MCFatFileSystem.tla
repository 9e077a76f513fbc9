--------------------------- MODULE MCFatFileSystem ---------------------------
(* The linux files that TLC copies into the image: of no, one or two blocks. *)
EXTENDS FatFileSystem

LinuxFile(id, len, mode) == [id |-> id, len |-> len, mode |-> mode]

\* chmod and addpw are called for the file f in the root.
MCChmodPaths == {<<"f">>}

MCShortFiles == {LinuxFile("a", 1, {"r", "w"}), LinuxFile("empty", 0, {"r"})}

MCBlockFiles == {LinuxFile("a", 1, {"r", "w"}), LinuxFile("b", 1, {"r", "w"})}

MCLongFiles == {LinuxFile("long1", 2, {"r", "w"}), LinuxFile("long2", 2, {"r", "w"})}
=============================================================================

--------------------------- MODULE MCCaptureRoot ---------------------------
(***************************************************************************)
(* Descriptors and candidates for a small instance of CaptureRoot.         *)
(***************************************************************************)
EXTENDS CaptureRoot

Ace(type, who, rights) ==
    [type |-> type, who |-> who, rights |-> rights, inherit_only |-> FALSE,
     to_directories |-> FALSE, to_files |-> FALSE]

Descriptor(owner, extra) ==
    [owner |-> owner, protected |-> FALSE, has_dacl |-> TRUE,
     acl |-> <<AccessAce(User)>> \o extra]

Tidy      == Descriptor(User, <<>>)
Browsable == Descriptor("administrators",
                        <<Ace("allowed", "other", {"read", "add_subdir"})>>)
Open1(rights) == Descriptor(User, <<Ace("allowed", "other", rights)>>)
Callback  == Descriptor(User, <<Ace("conditional", "other", {"write"})>>)
Denied    == Ace("denied", "other", Right)
Inheritable == <<[AccessAce("other") EXCEPT !.inherit_only = TRUE], Denied>>
Foreign   == Descriptor("other", <<>>)
NoDacl    == [Tidy EXCEPT !.has_dacl = FALSE]

MCVolumeDescriptor == {Browsable, Descriptor("installer", Inheritable), NoDacl}
MCDirectoryDescriptor ==
    {Tidy, Browsable, Open1({"delete"}), Open1({"delete_child", "add_subdir"}),
     Callback, Descriptor(User, Inheritable), Foreign}
MCStrayDescriptor == {Tidy}
MCPriorDescriptor ==
    {PrivateSecurity, [PrivateSecurity EXCEPT !.owner = "other"],
     [PrivateSecurity EXCEPT !.acl = @ \o <<Ace("allowed", "other", {"read"})>>]}

Place(prefix, fixed, components, drive) ==
    [prefix |-> prefix, fixed |-> fixed, components |-> components, drive |-> drive]

MCCandidates ==
    {<<Place("unc", FALSE, {}, 0), Place("disk", TRUE, {}, 0)>>,
     <<Place("disk", TRUE, {"parent"}, 0), Place("disk", TRUE, {}, Depth)>>,
     <<Place("disk", TRUE, {}, 1)>>,
     <<Place("disk", TRUE, {"colon"}, 0), Place("disk", FALSE, {}, 0)>>}
=============================================================================

------------------------- MODULE ClientInstructions --------------------------
(***************************************************************************)
(* What the generated client sends for each instruction: its number, and   *)
(* the accounts in order, each with the privileges that it asks for.  An   *)
(* account that the caller may leave out is sent all the same, as the      *)
(* address of the program.                                                 *)
(***************************************************************************)
EXTENDS Sequences

\* An account that the handler may write to, one that signs, one that does
\* both, and one that is only read.
Written(f) == [field |-> f, writable |-> TRUE, signs |-> "Always", optional |-> FALSE]
Changed(f) == [Written(f) EXCEPT !.signs = "Never"]
Signer(f) == [Written(f) EXCEPT !.writable = FALSE]
Named(f) == [Changed(f) EXCEPT !.writable = FALSE]

Maybe(meta) == [meta EXCEPT !.optional = TRUE]

\* Whether the payer signs is for the caller of Execute to say.
Payer == Written("payer")
ChosenPayer == [Payer EXCEPT !.signs = "Chosen"]

Authority == Maybe(Signer("authority"))
System == Named("system_program")
Log == Maybe(Named("log_wrapper"))

Instruction(number, metas) == [number |-> number, metas |-> metas]

-----------------------------------------------------------------------------
CreateV1 ==
  Instruction(0, << Written("asset"), Maybe(Changed("collection")), Authority,
                    Payer, Maybe(Named("owner")),
                    Maybe(Named("update_authority")), System, Log >>)

CreateCollectionV1 ==
  Instruction(1, << Written("collection"), Maybe(Named("update_authority")),
                    Payer, System >>)

AddPluginV1 ==
  Instruction(2, << Changed("asset"), Maybe(Changed("collection")), Payer,
                    Authority, System, Log >>)

AddCollectionPluginV1 ==
  Instruction(3, << Changed("collection"), Payer, Authority, System, Log >>)

RemovePluginV1 ==
  Instruction(4, << Changed("asset"), Maybe(Changed("collection")), Payer,
                    Authority, System, Log >>)

RemoveCollectionPluginV1 ==
  Instruction(5, << Changed("collection"), Payer, Authority, System, Log >>)

UpdatePluginV1 ==
  Instruction(6, << Changed("asset"), Maybe(Changed("collection")), Payer,
                    Authority, System, Log >>)

UpdateCollectionPluginV1 ==
  Instruction(7, << Changed("collection"), Payer, Authority, System, Log >>)

ApprovePluginAuthorityV1 ==
  Instruction(8, << Changed("asset"), Maybe(Changed("collection")), Payer,
                    Authority, System, Log >>)

ApproveCollectionPluginAuthorityV1 ==
  Instruction(9, << Changed("collection"), Payer, Authority, System, Log >>)

RevokePluginAuthorityV1 ==
  Instruction(10, << Changed("asset"), Maybe(Changed("collection")), Payer,
                     Authority, System, Log >>)

RevokeCollectionPluginAuthorityV1 ==
  Instruction(11, << Changed("collection"), Payer, Authority, System, Log >>)

BurnV1 ==
  Instruction(12, << Changed("asset"), Maybe(Changed("collection")), Payer,
                     Authority, Maybe(Named("system_program")), Log >>)

BurnCollectionV1 ==
  Instruction(13, << Changed("collection"), Payer, Maybe(Written("authority")),
                     Log >>)

\* Mutant of TransferV1: two places are swapped.
TransferV1Swapped ==
  Instruction(14, << Changed("asset"), Maybe(Named("collection")), Payer,
                     Named("new_owner"), Authority,
                     Maybe(Named("system_program")), Log >>)

TransferV1 ==
  Instruction(14, << Changed("asset"), Maybe(Named("collection")), Payer,
                     Authority, Named("new_owner"),
                     Maybe(Named("system_program")), Log >>)

UpdateV1 ==
  Instruction(15, << Changed("asset"), Maybe(Named("collection")), Payer,
                     Authority, System, Log >>)

UpdateCollectionV1 ==
  Instruction(16, << Changed("collection"), Payer, Authority,
                     Maybe(Named("new_update_authority")), System, Log >>)

CompressV1 ==
  Instruction(17, << Changed("asset"), Maybe(Named("collection")), Payer,
                     Authority, System, Log >>)

DecompressV1 ==
  Instruction(18, << Changed("asset"), Maybe(Named("collection")), Payer,
                     Authority, System, Log >>)

Collect ==
  Instruction(19, << Changed("recipient1"), Changed("recipient2") >>)

CreateV2 ==
  Instruction(20, << Written("asset"), Maybe(Changed("collection")), Authority,
                     Payer, Maybe(Named("owner")),
                     Maybe(Named("update_authority")), System, Log >>)

CreateCollectionV2 ==
  Instruction(21, << Written("collection"), Maybe(Named("update_authority")),
                     Payer, System >>)

AddExternalPluginAdapterV1 ==
  Instruction(22, << Changed("asset"), Maybe(Changed("collection")), Payer,
                     Authority, System, Log >>)

AddCollectionExternalPluginAdapterV1 ==
  Instruction(23, << Changed("collection"), Payer, Authority, System, Log >>)

RemoveExternalPluginAdapterV1 ==
  Instruction(24, << Changed("asset"), Maybe(Changed("collection")), Payer,
                     Authority, System, Log >>)

RemoveCollectionExternalPluginAdapterV1 ==
  Instruction(25, << Changed("collection"), Payer, Authority, System, Log >>)

UpdateExternalPluginAdapterV1 ==
  Instruction(26, << Changed("asset"), Maybe(Changed("collection")), Payer,
                     Authority, System, Log >>)

UpdateCollectionExternalPluginAdapterV1 ==
  Instruction(27, << Changed("collection"), Payer, Authority, System, Log >>)

WriteExternalPluginAdapterDataV1 ==
  Instruction(28, << Changed("asset"), Maybe(Changed("collection")), Payer,
                     Authority, Maybe(Named("buffer")), System, Log >>)

WriteCollectionExternalPluginAdapterDataV1 ==
  Instruction(29, << Changed("collection"), Payer, Authority,
                     Maybe(Named("buffer")), System, Log >>)

\* Mutant of UpdateV2: the new collection is only read.
UpdateV2ReadsCollection ==
  Instruction(30, << Changed("asset"), Maybe(Changed("collection")), Payer,
                     Authority, Maybe(Named("new_collection")), System, Log >>)

UpdateV2 ==
  Instruction(30, << Changed("asset"), Maybe(Changed("collection")), Payer,
                     Authority, Maybe(Changed("new_collection")), System,
                     Log >>)

ExecuteV1 ==
  Instruction(31, << Changed("asset"), Maybe(Changed("collection")),
                     Named("asset_signer"), ChosenPayer, Authority, System,
                     Named("program_id") >>)

UpdateCollectionInfoV1 ==
  Instruction(32, << Changed("collection"), Signer("bubblegum_signer") >>)

AddCollectionsToGroupV1 ==
  Instruction(33, << Changed("group"), Payer, Authority, System >>)

RemoveCollectionsFromGroupV1 ==
  Instruction(34, << Changed("group"), Payer, Authority, System >>)

AddAssetsToGroupV1 ==
  Instruction(35, << Changed("group"), Payer, Authority, System >>)

RemoveAssetsFromGroupV1 ==
  Instruction(36, << Changed("group"), Payer, Authority, System >>)

AddGroupsToGroupV1 ==
  Instruction(37, << Changed("parent_group"), Payer, Authority, System >>)

RemoveGroupsFromGroupV1 ==
  Instruction(38, << Changed("parent_group"), Payer, Authority, System >>)

CreateGroupV1 ==
  Instruction(39, << Written("group"), Maybe(Signer("update_authority")),
                     Payer, System >>)

CloseGroupV1 ==
  Instruction(40, << Changed("group"), Payer, Authority >>)

UpdateGroupV1 ==
  Instruction(41, << Changed("group"), Payer, Authority,
                     Maybe(Named("new_update_authority")), System >>)

-----------------------------------------------------------------------------
\* What there is for a caller to send.
ClientInstructions ==
  [ CreateV1 |-> CreateV1,
    CreateCollectionV1 |-> CreateCollectionV1,
    AddPluginV1 |-> AddPluginV1,
    AddCollectionPluginV1 |-> AddCollectionPluginV1,
    RemovePluginV1 |-> RemovePluginV1,
    RemoveCollectionPluginV1 |-> RemoveCollectionPluginV1,
    UpdatePluginV1 |-> UpdatePluginV1,
    UpdateCollectionPluginV1 |-> UpdateCollectionPluginV1,
    ApprovePluginAuthorityV1 |-> ApprovePluginAuthorityV1,
    ApproveCollectionPluginAuthorityV1 |-> ApproveCollectionPluginAuthorityV1,
    RevokePluginAuthorityV1 |-> RevokePluginAuthorityV1,
    RevokeCollectionPluginAuthorityV1 |-> RevokeCollectionPluginAuthorityV1,
    BurnV1 |-> BurnV1,
    BurnCollectionV1 |-> BurnCollectionV1,
    TransferV1 |-> TransferV1,
    UpdateV1 |-> UpdateV1,
    UpdateCollectionV1 |-> UpdateCollectionV1,
    CompressV1 |-> CompressV1,
    DecompressV1 |-> DecompressV1,
    Collect |-> Collect,
    CreateV2 |-> CreateV2,
    CreateCollectionV2 |-> CreateCollectionV2,
    AddExternalPluginAdapterV1 |-> AddExternalPluginAdapterV1,
    AddCollectionExternalPluginAdapterV1 |-> AddCollectionExternalPluginAdapterV1,
    RemoveExternalPluginAdapterV1 |-> RemoveExternalPluginAdapterV1,
    RemoveCollectionExternalPluginAdapterV1 |-> RemoveCollectionExternalPluginAdapterV1,
    UpdateExternalPluginAdapterV1 |-> UpdateExternalPluginAdapterV1,
    UpdateCollectionExternalPluginAdapterV1 |-> UpdateCollectionExternalPluginAdapterV1,
    WriteExternalPluginAdapterDataV1 |-> WriteExternalPluginAdapterDataV1,
    WriteCollectionExternalPluginAdapterDataV1 |-> WriteCollectionExternalPluginAdapterDataV1,
    UpdateV2 |-> UpdateV2,
    ExecuteV1 |-> ExecuteV1,
    UpdateCollectionInfoV1 |-> UpdateCollectionInfoV1,
    AddCollectionsToGroupV1 |-> AddCollectionsToGroupV1,
    RemoveCollectionsFromGroupV1 |-> RemoveCollectionsFromGroupV1,
    AddAssetsToGroupV1 |-> AddAssetsToGroupV1,
    RemoveAssetsFromGroupV1 |-> RemoveAssetsFromGroupV1,
    AddGroupsToGroupV1 |-> AddGroupsToGroupV1,
    RemoveGroupsFromGroupV1 |-> RemoveGroupsFromGroupV1,
    CreateGroupV1 |-> CreateGroupV1,
    CloseGroupV1 |-> CloseGroupV1,
    UpdateGroupV1 |-> UpdateGroupV1 ]

=============================================================================

----------------------------- MODULE ConcordApi -----------------------------
(***************************************************************************)
(* The REST calls of api/concord.ts, by what each does to the collection   *)
(* it addresses.  Every call goes through apiFetch (one request, no retry, *)
(* an exception for any answer that is not 2xx), so a call whose answer is *)
(* lost may have been carried out.  The server behind them is external.    *)
(***************************************************************************)

Get == "get"           \* reads the collection
Add == "add"           \* POST: one more entry
Remove == "remove"     \* DELETE: one entry less
Patch == "patch"       \* PATCH or POST on one entry: it gains or loses a trait
Replace == "replace"   \* the whole value is sent as the form holds it
Rewrite == "rewrite"   \* the whole value is sent, computed from what is shown
Act == "act"           \* changes nothing that the client lists

Effect == {Add, Remove, Patch, Replace, Rewrite, Act}

\* What a caller of apiFetch can observe of a call.
apiFetch == {"answered", "refused", "answer lost"}

ServersApi ==
  [listExtensions |-> Get, listServers |-> Get, createServer |-> Add,
   startServerExtension |-> Act, createChannel |-> Add, updateAppChannelAccess |-> Patch]
InvitesApi ==
  [createInvite |-> Add, getAuthCode |-> Get, listInvites |-> Get, validateInvite |-> Get,
   revokeInvite |-> Remove, updateInvite |-> Patch]
ServerEditApi ==
  [deleteServer |-> Remove, deleteChannel |-> Remove, renameChannel |-> Patch,
   reorderChannels |-> Rewrite, leaveServer |-> Remove, registerUser |-> Act,
   getVoiceParticipants |-> Get]
SoundboardApi ==
  [listSoundboardLibrary |-> Get, listSoundboardClips |-> Get, uploadSoundboardClip |-> Add,
   updateSoundboardClip |-> Patch, deleteSoundboardClip |-> Remove]
SoundLibraryApi == [searchSoundLibrary |-> Get, importLibrarySound |-> Add]
DiscoveryApi ==
  [discoverServers |-> Get, getDefaultServer |-> Get, joinServer |-> Add,
   rejoinServerRooms |-> Act]
ServerSettingsApi ==
  [getServerSettings |-> Get, updateServerSettings |-> Replace, getServerRules |-> Get,
   uploadServerIcon |-> Add, deleteServerIcon |-> Remove,
   updateChannelCreationSetting |-> Patch]
MembersApi ==
  [listMembers |-> Get, updateMemberRole |-> Patch, updateDisplayName |-> Patch,
   kickMember |-> Remove]
BansApi == [listBans |-> Get, banUser |-> Add, unbanUser |-> Remove]
WhitelistApi ==
  [listWhitelist |-> Get, addToWhitelist |-> Add, removeFromWhitelist |-> Remove]
WebhooksApi ==
  [listWebhooks |-> Get, createWebhook |-> Add, deleteWebhook |-> Remove,
   toggleWebhook |-> Patch, getWebhookInfo |-> Get, submitWebhookMessage |-> Act]
EmailInvitesApi ==
  [checkEmailAvailable |-> Get, sendEmailInvite |-> Add, redeemInvite |-> Add,
   listServerInvites |-> Get]
AccountApi ==
  [changePassword |-> Act, setRecoveryEmail |-> Replace, getRecoveryEmailStatus |-> Get,
   submitBugReport |-> Act]
DirectInvitesApi ==
  [searchUsers |-> Get, sendDirectInvite |-> Act, getPendingDirectInvites |-> Get,
   respondToDirectInvite |-> Remove]
StatsApi ==
  [startVoiceSession |-> Add, endVoiceSession |-> Remove, incrementMessageCount |-> Act,
   getMyStats |-> Get]
TOTPApi ==
  [getTOTPStatus |-> Get, setupTOTP |-> Act, verifyTOTP |-> Add, disableTOTP |-> Remove,
   loginVerifyTOTP |-> Act, getUsersWithTOTP |-> Get]
ChannelLockApi ==
  [lockChannel |-> Add, unlockChannel |-> Remove, verifyChannelPin |-> Act,
   getChannelLockStatus |-> Get]
ModerationApi ==
  [startVoteKick |-> Add, castVoteKick |-> Patch, getActiveVoteKicks |-> Get,
   executeVoteKick |-> Remove, getBanSettings |-> Get, updateBanSettings |-> Replace,
   getMyKickCount |-> Get, updateMemberPermissions |-> Patch]
InstanceApi ==
  [getInstanceInfo |-> Get, updateInstanceSettings |-> Patch, setInstanceBranding |-> Replace]
AdminInvitesApi ==
  [adminListInvites |-> Get, adminCreateInvite |-> Add, adminRevokeInvite |-> Remove]
AdminExtensionsApi ==
  [adminGetExtensionCatalog |-> Get, adminInstallExtension |-> Add,
   adminUninstallExtension |-> Remove]
AdminApi ==
  [checkAdmin |-> Get, getAdminStats |-> Get, getAdminServers |-> Get, getAdminUsers |-> Get,
   getAdminReports |-> Get, updateAdminReport |-> Patch]
DMApi == [listDMs |-> Get, createDM |-> Add, getRoomDiagnostics |-> Get]
FederationApi ==
  [getFederationStatus |-> Get, updateFederationAllowlist |-> Rewrite,
   applyFederationChanges |-> Act]
ServiceNodeApi == [getServiceNodeConfig |-> Get, updateServiceNodeConfig |-> Replace]
ExploreApi == [listExploreServers |-> Get]
GuestApi == [createGuestSession |-> Act]
AdminBansApi == [getAdminBans |-> Get, adminBanUser |-> Add, adminUnbanUser |-> Remove]
=============================================================================

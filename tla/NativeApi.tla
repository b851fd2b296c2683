----------------------------- MODULE NativeApi ------------------------------
(***************************************************************************)
(* The calls the client makes of the native side through invoke (external),*)
(* by what each does, in the terms of ConcordApi.  In a browser a call     *)
(* that only a host can serve is refused, except the lists of one's own    *)
(* porch, which are empty; a visit goes over the browser's libp2p node.    *)
(***************************************************************************)
EXTENDS ConcordApi

\* api/porch.ts
MyPorchApi == [listMyChannels |-> Get, getLocalMessages |-> Get, postLocalMessage |-> Add]
VisitApi == [visitPeer |-> Get, visitGetMessages |-> Get, visitPostMessage |-> Add]
DoorApi ==
  [porchPendingKnocks |-> Get, porchAcceptKnock |-> Remove, porchRejectKnock |-> Remove,
   porchCreateChannel |-> Add, porchGrantMember |-> Add, porchRevokeMember |-> Remove]
KnockApi ==
  [porchVisitKnock |-> Add, porchVisitKnockStatus |-> Get, porchVisitWithdrawKnock |-> Remove]
ThemeApi ==
  [porchGetTheme |-> Get, porchSetTheme |-> Replace, porchUploadAsset |-> Add,
   porchListAssets |-> Get, porchVisitGetTheme |-> Get, porchVisitGetAssetBytes |-> Get]
VaultApi ==
  [porchSetObsidianConfig |-> Replace, porchGetObsidianConfig |-> Get, porchListVault |-> Get,
   porchReadVaultFile |-> Get, porchVisitListVault |-> Get, porchVisitGetVaultFile |-> Get]
BackupApi ==
  [porchBackupAddTarget |-> Add, porchBackupRemoveTarget |-> Remove,
   porchBackupListTargets |-> Get, porchBackupPushNow |-> Patch,
   porchBackupCheckRemoteInfo |-> Get, porchBackupRestoreFrom |-> Act,
   porchBackupListReceived |-> Get]
DeviceApi ==
  [porchMyDeviceId |-> Get, porchLinkPersonalDevice |-> Add, porchUnlinkDevice |-> Remove,
   porchListDeviceLinks |-> Get, porchSyncNow |-> Patch, porchSyncAllPersonalDevices |-> Patch]

\* The other files of api/
HostingApi ==
  [fetchHostingProfile |-> Get, setHostingProfile |-> Patch, startHostingServitude |-> Patch,
   enableWebStack |-> Patch]
PeerApi ==
  [fetchKnownPeers |-> Get, addPeer |-> Add, removePeer |-> Remove, fetchVisiblePeers |-> Get,
   revokePeerAccess |-> Patch, grantPeerAccess |-> Patch]
SwarmApi == [fetchPeerSwarmStatus |-> Get]
PeerIdentityApi == [fetchPeerIdentity |-> Get]
TunnelApi ==
  [getTunnelConfig |-> Get, setTunnelConfig |-> Rewrite, detectTunnelInterfaces |-> Get]
ProfileApi ==
  [userProfileList |-> Get, userProfileCreate |-> Add, userProfileRename |-> Patch,
   userProfileSetPrimary |-> Patch, userProfileSetAvatar |-> Patch, userProfileDelete |-> Remove,
   userProfileKeychainList |-> Get, userProfileKeychainRemove |-> Remove]
VisibilityApi == [fetchVisibility |-> Get, setVisibility |-> Replace]
HomeNameApi == [getHomeServerName |-> Get, setHomeServerName |-> Replace]
InstanceNameApi == [getInstanceName |-> Get, setInstanceName |-> Replace]
TrustApi ==
  [getSelf |-> Get, getForPeer |-> Get, addTrustEdge |-> Add, listTrustEdges |-> Get,
   revokeTrustEdge |-> Remove]
ExportApi == [homeExportPackage |-> Act, homeSendExport |-> Act, homeExportCopyTo |-> Act]
=============================================================================

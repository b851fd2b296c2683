---------------------------- MODULE ClientPanels ----------------------------
(***************************************************************************)
(* The panels outside the settings window: the porch, the peer list, the   *)
(* dialogs for servers, invitations, direct messages and extensions.       *)
(***************************************************************************)
EXTENDS SettingsPanels

\* components/porch.  The native calls go through invoke and fail the same way.
PersonalDevices ==
  Shows("remount", "no", TRUE,
    {Op(DeviceApi.porchLinkPersonalDevice, "reload", "none"),
     Op(DeviceApi.porchSyncNow, "reload", "slot"), Op(DeviceApi.porchUnlinkDevice, "reload", "none")})
\* Push and restore share the state that names the busy target.
BackupSettings ==
  Shows("remount", "no", FALSE,
    {Op(BackupApi.porchBackupAddTarget, "reload", "none"),
     Op(BackupApi.porchBackupRemoveTarget, "reload", "none"),
     Op(BackupApi.porchBackupPushNow, "reload", "slot"),
     Op(BackupApi.porchBackupRestoreFrom, "reload", "slot")})
BackupRemoteInfos == Shows("flag", "no", FALSE, {})
ChannelThemeEditor ==
  Shows("none", "answered", FALSE, 
    {Op(ThemeApi.porchSetTheme, "echo", "call"), Op(ThemeApi.porchUploadAsset, "local", "none")})
ObsidianChannelEditor == Shows("flag", "no", FALSE, {Op(VaultApi.porchSetObsidianConfig, "echo", "panel")})
\* The subject is the file, or the directory.
VaultBrowserFile == Shows("none", "no", FALSE, {})
VaultBrowserDirs == Shows("none", "no", FALSE, {})
KnocksAtTheDoor == Shows("remount", "no", TRUE, {Op(DoorApi.porchAcceptKnock, "reload", "slot")})

\* components/server, components/dm
ExploreServers == Shows("remount", "value", TRUE, {})
\* The subject is the homeserver browsed; joins block each other.
ExploreRooms == Shows("none", "value", TRUE, {Op(Act, "nothing", "panel")})
InviteModal == Shows("remount", "no", FALSE, {})
EmailInviteSection ==
  Shows("remount", "no", FALSE, {Op(EmailInvitesApi.sendEmailInvite, "nothing", "panel")})
PermanentLinkSection ==
  Shows("remount", "no", FALSE, {Op(InvitesApi.createInvite, "local", "panel")})
ExpiringLinkSection ==
  Shows("remount", "no", FALSE, {Op(InvitesApi.createInvite, "local", "panel")})
CreateTab == Shows("remount", "no", FALSE, {Op(ServersApi.createServer, "nothing", "panel")})
BrowseTab == Shows("none", "no", FALSE, {Op(DiscoveryApi.joinServer, "nothing", "slot")})
\* A sequence number drops the answers to earlier queries.
NewDMModal == Shows("flag", "no", FALSE, {Op(Act, "nothing", "slot")})

\* Other dialogs
StatsModal == Shows("none", "answered", FALSE, {})
BugReportModal == Shows("remount", "no", FALSE, {Op(AccountApi.submitBugReport, "nothing", "panel")})
ExtensionLibraryPanel ==
  Shows("remount", "value", TRUE,
    {Op(AdminExtensionsApi.adminInstallExtension, "reload", "slot"),
     Op(AdminExtensionsApi.adminUninstallExtension, "reload", "slot")})
SubmitPage == Shows("none", "value", FALSE, {Op(WebhooksApi.submitWebhookMessage, "nothing", "panel")})
\* A loop of status reads, each after the previous one, beside the buttons.
LocalHostingControl == Shows("flag", "no", TRUE, {Op(HostingApi.startHostingServitude, "optimistic", "panel")})
FirstLaunchTwoNameBanner == Shows("remount", "no", FALSE, {Op(Patch, "nothing", "panel")})
KnownPeerRow == Shows("remount", "no", FALSE, {Op(Remove, "local", "none"), Op(Patch, "local", "none")})
DirectInviteBanner ==
  Shows("remount", "no", TRUE, {Op(DirectInvitesApi.respondToDirectInvite, "local", "none")})

ClientPanelSet ==
  SettingsPanelSet \cup
  {PersonalDevices, BackupSettings, BackupRemoteInfos, ChannelThemeEditor,
   ObsidianChannelEditor, VaultBrowserFile, VaultBrowserDirs, KnocksAtTheDoor,
   ExploreServers, ExploreRooms, InviteModal, EmailInviteSection, PermanentLinkSection,
   ExpiringLinkSection, CreateTab, BrowseTab, NewDMModal, StatsModal, BugReportModal,
   ExtensionLibraryPanel, SubmitPage, LocalHostingControl, FirstLaunchTwoNameBanner,
   KnownPeerRow, DirectInviteBanner}
=============================================================================
